---- MODULE Spec2Model ----
(***************************************************************************)
(* Concurrency and cache-coherence core of the RoyDental data-access       *)
(* layer: the Redis lock manager (database/redis.go), the cache layer      *)
(* (cache/cache.go) and the entity repositories (repositories/*.go) over   *)
(* a PostgreSQL store.  Workers are request goroutines; each runs one      *)
(* repository call at a time, one store / Redis round trip per step.       *)
(***************************************************************************)
EXTENDS Integers, Sequences, FiniteSets, TLC

VARIABLES
    redisLocks,   \* Redis lock entries: lock key -> [value, ttl]
    cacheStore,   \* Redis cache entries: cache key -> serialized value
    tblDoctor,    \* committed rows of table "doctor"
    tblPatient,   \* committed rows of table "patient"
    tblDep,       \* committed rows of the five dependent tables and of
                  \* table "users"
    seqs,         \* PostgreSQL sequences: name -> [last_value, is_called]
    calls,        \* number of repository calls started so far
    faults,       \* number of injected Redis / store failures
    proc          \* per worker: the running call and its local variables

vars == <<redisLocks, cacheStore, tblDoctor, tblPatient, tblDep, seqs,
          calls, faults, proc>>

----------------------------------------------------------------------------
(* Bounds of the model *)

Workers == {"w1", "w2"}

\* total number of repository calls started
MaxCalls == 3

\* total number of injected Redis / store failures
MaxFaults == 1

----------------------------------------------------------------------------
(* Program constants *)

maxRetriesOff == 3 - 1

maxRetries == 3

ShortTTL == 10

LongTTL == 60

----------------------------------------------------------------------------
(* Sequential-ID formatting: 'DR-' || LPAD(nextval(...)::TEXT, 6, '0') *)

RECURSIVE Zeros(_)
Zeros(n) == IF n <= 0 THEN "" ELSE "0" \o Zeros(n - 1)

\* PostgreSQL LPAD: pads on the left up to len; a longer text is cut to len
LPAD(txt, len) ==
    IF Len(txt) >= len THEN SubSeq(txt, 1, len)
    ELSE Zeros(len - Len(txt)) \o txt

FormatID(prefix, n) == prefix \o "-" \o LPAD(ToString(n), 6)


----------------------------------------------------------------------------
(* Lock manager: database/redis.go *)

\* SetNX as a plain SET: overwrites the entry of the current holder
NewLockOverwrite(locks, key, value, ttl, up) ==
    IF ~up THEN [locks |-> locks, ok |-> FALSE, err |-> "redis"]
    ELSE [locks |-> [k \in DOMAIN locks \cup {key} |->
                        IF k = key THEN [value |-> value, ttl |-> ttl]
                        ELSE locks[k]],
          ok |-> TRUE, err |-> "nil"]

\* SetNX without an expiry: the entry stays until it is deleted
NewLockNoTTL(locks, key, value, ttl, up) ==
    IF ~up THEN [locks |-> locks, ok |-> FALSE, err |-> "redis"]
    ELSE IF key \in DOMAIN locks
         THEN [locks |-> locks, ok |-> FALSE, err |-> "nil"]
         ELSE [locks |-> [k \in DOMAIN locks \cup {key} |->
                             IF k = key THEN [value |-> value, ttl |-> 0]
                             ELSE locks[k]],
               ok |-> TRUE, err |-> "nil"]

\* NewLock: RedisClient.SetNX(ctx, key, value, ttl).Result()
NewLock(locks, key, value, ttl, up) ==
    IF ~up THEN [locks |-> locks, ok |-> FALSE, err |-> "redis"]
    ELSE IF key \in DOMAIN locks
         THEN [locks |-> locks, ok |-> FALSE, err |-> "nil"]
         ELSE [locks |-> [k \in DOMAIN locks \cup {key} |->
                             IF k = key THEN [value |-> value, ttl |-> ttl]
                             ELSE locks[k]],
               ok |-> TRUE, err |-> "nil"]

\* ReleaseLock without the owner check: a plain DEL
ReleaseLockUnchecked(locks, key, value, up) ==
    IF ~up THEN [locks |-> locks, err |-> "redis"]
    ELSE [locks |-> [k \in DOMAIN locks \ {key} |-> locks[k]], err |-> "nil"]

\* ReleaseLock: the Lua script GET == ARGV[1] -> DEL, else 0
ReleaseLock(locks, key, value, up) ==
    IF ~up THEN [locks |-> locks, err |-> "redis"]
    ELSE IF key \in DOMAIN locks /\ locks[key].value = value
         THEN [locks |-> [k \in DOMAIN locks \ {key} |-> locks[k]],
               err |-> "nil"]
         ELSE [locks |-> locks, err |-> "notOwner"]

----------------------------------------------------------------------------
(* Cache layer: cache/cache.go *)

\* gorm.ErrRecordNotFound / a nil entity
NoRow == [t |-> "none"]

\* the empty string "", which no entity decodes from
EmptyVal == [t |-> "empty"]

\* Redis glob match of SCAN; every pattern the repositories pass is free of
\* glob metacharacters, so a key matches iff it is the pattern itself
GlobMatch(pattern, key) == pattern = key

\* Cache.Get: a missing key (redis.Nil) is returned as ("", nil)
CacheGet(store, key, up) ==
    IF ~up THEN [val |-> EmptyVal, err |-> "redis"]
    ELSE IF key \in DOMAIN store THEN [val |-> store[key], err |-> "nil"]
         ELSE [val |-> EmptyVal, err |-> "nil"]

\* a SET that reports success and stores nothing
CacheSetDropped(store, key, value, up) ==
    IF ~up THEN [store |-> store, err |-> "redis"]
    ELSE [store |-> store, err |-> "nil"]

\* Cache.Set
CacheSet(store, key, value, up) ==
    IF ~up THEN [store |-> store, err |-> "redis"]
    ELSE [store |-> [k \in DOMAIN store \cup {key} |->
                        IF k = key THEN value ELSE store[k]],
          err |-> "nil"]

\* a Delete that leaves the empty string under the key
CacheDeleteAsSet(store, key, up) ==
    IF ~up THEN [store |-> store, err |-> "redis"]
    ELSE [store |-> [k \in DOMAIN store \cup {key} |->
                        IF k = key THEN EmptyVal ELSE store[k]],
          err |-> "nil"]

\* Cache.Delete
CacheDelete(store, key, up) ==
    IF ~up THEN [store |-> store, err |-> "redis"]
    ELSE [store |-> [k \in DOMAIN store \ {key} |-> store[k]], err |-> "nil"]

\* Cache.DeleteAll: SCAN the pattern and DEL every key found
CacheDeleteAll(store, pattern, up) ==
    IF ~up THEN [store |-> store, err |-> "redis"]
    ELSE [store |-> [k \in {x \in DOMAIN store : ~GlobMatch(pattern, x)} |->
                        store[k]],
          err |-> "nil"]

----------------------------------------------------------------------------
(* Workers and calls *)

NoArg ==
    [id |-> "", first_name |-> "", middle_name |-> "", last_name |-> "",
     date_of_birth |-> "", patient_id |-> "", phone |-> "", dep_id |-> 0]

IdleProc ==
    [op |-> "idle", arg |-> NoArg, pc |-> "idle", n |-> 0, prev |-> "idle",
     lockKey |-> "", lockValue |-> 0, ttl |-> 0,
     i |-> 0, locked |-> FALSE, err |-> "nil", ret |-> "none",
     relErr |-> "none",
     nextID |-> "", got |-> NoRow, tx |-> {}, txDel |-> {}, rows |-> {},
     j |-> 1, effects |-> {}, after |-> {}, loaded |-> {}, seen |-> {},
     purged |-> {}, ctxDone |-> FALSE, mu |-> FALSE]

\* a call with a lock: lockValue := uuid.New().String()
NewCall(op, arg, lockKey, ttl, uuid) ==
    [IdleProc EXCEPT !.op = op, !.arg = arg, !.pc = "lock",
                     !.lockKey = lockKey, !.lockValue = uuid, !.ttl = ttl]

\* a read call: no lock, first step is the cache lookup
NewRead(op, arg) ==
    [IdleProc EXCEPT !.op = op, !.arg = arg, !.pc = "cget"]

CanStart(w) ==
    /\ proc[w].pc \in {"idle", "done"}
    /\ calls < MaxCalls

\* an injected failure of one Redis / store round trip
Outcome(up) ==
    /\ (up \/ faults < MaxFaults)
    /\ faults' = IF up THEN faults ELSE faults + 1

Did(p, e) == [p EXCEPT !.effects = @ \cup {e}]

\* a return that runs the release only on success
ReturnNoDefer(p, ret) ==
    [p EXCEPT !.ret = ret, !.tx = {}, !.txDel = {}, !.rows = {},
              !.pc = IF p.locked /\ ret = "ok" THEN "release" ELSE "done"]

\* return err: the deferred ReleaseLock runs next when the lock was taken
Return(p, ret) ==
    [p EXCEPT !.ret = ret, !.tx = {}, !.txDel = {}, !.rows = {},
              !.pc = IF p.locked THEN "release" ELSE "done"]

----------------------------------------------------------------------------
(* Lock acquisition of the repositories *)

\* first step after the lock is held
Body(op) ==
    CASE op = "Doctor.Create" -> "check"
      [] op = "Doctor.Update" -> "save"
      [] op = "Doctor.Delete" -> "delete"
      [] op = "Patient.Create" -> "check"
      [] op = "Patient.Delete" -> "delete"
      [] op = "Patient.DeletePatientAndRelated" -> "enum"
      [] op = "EmergencyContact.Create" -> "upsert"
      [] op = "EmergencyContact.Update" -> "fetch"
      [] op = "EmergencyContact.Delete" -> "cdelete"
      [] op = "User.UpdateUserEmail" -> "uemail"
      [] op = "User.DeleteUser" -> "ucget"
      [] op = "Auth.ChangePassword" -> "upass"
      [] OTHER -> "done"

\* the guard dropped: the call goes on without the lock
AfterLockLoopUnguarded(p) == [p EXCEPT !.pc = Body(p.op)]

\* if !locked { return fmt.Errorf("failed to acquire lock after retries") }
AfterLockLoop(p) ==
    IF ~p.locked THEN Return(p, "LockFailed")
    ELSE [p EXCEPT !.pc = Body(p.op)]

\* the retry loop without its break: every call makes all its attempts
LoopEndsNoBreak(q) == q.i >= maxRetries

\* if err == nil && locked { break }, or the loop counter runs out
LoopEnds(q) == (q.err = "nil" /\ q.locked) \/ q.i >= maxRetries

\* the calls of the other workers that have acquired their lock so far
AcquiredBefore(w) == {proc[v].n : v \in {u \in Workers \ {w} : proc[u].locked}}

\* for i := 0; i < maxRetries; i++ { locked, err = NewLock(...); ... }
\* one iteration; the sleep between attempts takes no step of its own
TryLock(w) ==
    /\ proc[w].pc = "lock"
    /\ \E up \in BOOLEAN :
        LET p == proc[w]
            r == NewLock(redisLocks, p.lockKey, p.lockValue, p.ttl, up)
            q == [p EXCEPT !.i = @ + 1, !.locked = r.ok, !.err = r.err,
                           !.after = IF r.ok THEN AcquiredBefore(w) ELSE @]
        IN  /\ Outcome(up)
            /\ redisLocks' = r.locks
            /\ proc' = [proc EXCEPT ![w] =
                   IF LoopEnds(q) THEN AfterLockLoop(q)
                   ELSE q]
    /\ UNCHANGED <<cacheStore, tblDoctor, tblPatient, tblDep, seqs, calls>>

\* a release failure handed to the caller in place of the result
AfterReleaseEscalated(p, err) ==
    [Did(p, "release") EXCEPT !.relErr = err,
                              !.pc = IF p.op = "Auth.ChangePassword"
                                        /\ p.ret = "ok"
                                     THEN "delcode" ELSE "done",
                              !.ret = IF err = "nil" THEN @ ELSE "ReleaseError"]

\* if err := database.ReleaseLock(...); err != nil { log.Printf(...) }: the
\* deferred function has no access to the result of the call. ChangePassword
\* goes on to DeleteResetCode when UpdateUserPassword has returned nil
AfterRelease(p, err) ==
    [Did(p, "release") EXCEPT !.relErr = err,
                              !.pc = IF p.op = "Auth.ChangePassword"
                                        /\ p.ret = "ok"
                                     THEN "delcode" ELSE "done"]

\* defer func() { if err := ReleaseLock(ctx, lockKey, lockValue); ... log }
Release(w) ==
    /\ proc[w].pc = "release"
    /\ \E up \in BOOLEAN :
        LET p == proc[w]
            r == ReleaseLock(redisLocks, p.lockKey, p.lockValue, up)
        IN  /\ Outcome(up)
            /\ redisLocks' = r.locks
            /\ proc' = [proc EXCEPT ![w] = AfterRelease(p, r.err)]
    /\ UNCHANGED <<cacheStore, tblDoctor, tblPatient, tblDep, seqs, calls>>

\* Redis drops a lock entry when its TTL has run out, whatever its holder
\* is doing: no store or cache call of a repository is bounded by the TTL
Expire(k) ==
    /\ k \in DOMAIN redisLocks
    /\ redisLocks[k].ttl > 0
    /\ redisLocks' = [x \in DOMAIN redisLocks \ {k} |-> redisLocks[x]]
    /\ UNCHANGED <<cacheStore, tblDoctor, tblPatient, tblDep, seqs,
                   calls, faults, proc>>

----------------------------------------------------------------------------------------------------------------------------------------
(* Serialization: encoding/json over the models' json tags *)

\* json.Marshal(doctor): id, first_name, last_name (relations are json:"-")
MarshalDoctor(d) ==
    [t |-> "doctor", id |-> d.id, first_name |-> d.first_name,
     last_name |-> d.last_name]

\* json.Marshal(doctors)
MarshalDoctors(ds) == [t |-> "doctors", rows |-> {MarshalDoctor(d) : d \in ds}]

\* json.Marshal(patient): the patient's own columns; EmergencyContacts,
\* Examinations, Billings, TreatmentPlans and Appointments are json:"-"
MarshalPatient(r) ==
    [t |-> "patient", id |-> r.id, first_name |-> r.first_name,
     middle_name |-> r.middle_name, last_name |-> r.last_name,
     date_of_birth |-> r.date_of_birth]

\* json.Marshal(contact): id, patient_id, phone (Patient is json:"-")
MarshalContact(r) ==
    [t |-> "emergency_contact", id |-> r.id, patient_id |-> r.patient_id,
     phone |-> r.phone]

\* json.Marshal(appointment): its own columns and, under "patient" and
\* "doctor", the rows loaded by Preload("Patient") and Preload("Doctor") with
\* Select("id, first_name, last_name")
MarshalAppointment(r, pat, doc) ==
    [t |-> "appointment", id |-> r.id, patient_id |-> r.patient_id,
     doctor_id |-> r.doctor_id,
     patient |-> [id |-> pat.id, first_name |-> pat.first_name,
                  last_name |-> pat.last_name],
     doctor |-> [id |-> doc.id, first_name |-> doc.first_name,
                 last_name |-> doc.last_name]]

\* a decoder that accepts every input, the empty string included
UnmarshalAny(val, t) == TRUE

\* json.Unmarshal into a value of type t: fails on "" and on another shape
UnmarshalOK(val, t) == val.t = t

----------------------------------------------------------------------------
(* Per-operation descriptors *)

DoctorOps == {"Doctor.Create", "Doctor.Update", "Doctor.Delete"}

PatientOps == {"Patient.Create", "Patient.Delete",
               "Patient.DeletePatientAndRelated"}

ContactOps == {"EmergencyContact.Create", "EmergencyContact.Update",
               "EmergencyContact.Delete"}

\* operations that run their store writes and cache invalidation inside
\* database.DB.Transaction
UsesTx(op) == op \in {"Doctor.Create", "Patient.Create",
                      "Patient.DeletePatientAndRelated"}

SeqOf(op) == CASE op = "Doctor.Create" -> "doctor_id_seq"
               [] op = "Patient.Create" -> "patient_id_seq"
               [] op = "EmergencyContact.Create" -> "emergency_contact_id_seq"
               [] OTHER -> "none"

PrefixOf(op) == CASE op = "Doctor.Create" -> "DR"
                  [] op = "Patient.Create" -> "DP"
                  [] OTHER -> ""

\* Patient.Create runs its setval through tx, the transaction whose insert
\* has just failed; Doctor.Create runs it through database.DB
SetvalInTx(op) == op = "Patient.Create"

getDoctorCacheKey(id) == "doctor_cache:" \o id

getPatientCacheKey(patientID) == "patient_cache:" \o patientID

getEmergencyContactCacheKey(patientID, id) ==
    "emergency_contact_cache:" \o patientID \o "_" \o ToString(id)

\* the dependent tables in the order DeletePatientAndRelated visits them
DepTypes == <<"emergency_contact", "examination", "billing",
              "treatment_plan", "appointment">>

\* <repo>.DeleteCache(ctx, row...): the specific key of a dependent row
DepCacheKey(r) ==
    CASE r.t = "emergency_contact" ->
           getEmergencyContactCacheKey(r.patient_id, r.id)
      [] r.t = "examination" ->
           "examination_cache:" \o r.patient_id \o ":" \o ToString(r.id)
      [] r.t = "billing" -> "billing_cache:" \o r.billing_id
      [] r.t = "treatment_plan" ->
           "treatment_plan_cache:" \o r.patient_id \o ":" \o ToString(r.id)
      [] r.t = "appointment" ->
           "appointment_cache:" \o r.patient_id \o "_" \o ToString(r.id)

One(key) == [all |-> FALSE, key |-> key]

All(pattern) == [all |-> TRUE, key |-> pattern]

\* a mutation that deletes the entity's keys and leaves the patient's alone
InvKeysNoParent(p) ==
    CASE p.op \in DoctorOps ->
           <<One(getDoctorCacheKey(p.arg.id)), All("doctors_cache")>>
      [] p.op \in PatientOps ->
           <<One(getPatientCacheKey(p.arg.id)), All("patients_cache")>>
      [] p.op \in ContactOps ->
           <<One(getEmergencyContactCacheKey(p.arg.patient_id, p.arg.dep_id)),
             All("emergency_contacts_cache")>>
      [] OTHER -> <<>>

\* the cache keys a mutation deletes after its store write, in the order of
\* the code
InvKeys(p) ==
    CASE p.op \in DoctorOps ->
           <<One(getDoctorCacheKey(p.arg.id)), All("doctors_cache")>>
      [] p.op \in {"Patient.Create", "Patient.Delete"} ->
           <<One(getPatientCacheKey(p.arg.id)), All("patients_cache")>>
      [] p.op = "Patient.DeletePatientAndRelated" ->
           <<One(getPatientCacheKey(p.arg.id)), All("patients_cache"),
             All("appointments_cache"), All("emergency_contacts_cache"),
             All("billings_cache"), All("examinations_cache"),
             All("treatment_plans_cache")>>
      [] p.op \in ContactOps ->
           <<One(getEmergencyContactCacheKey(p.arg.patient_id, p.arg.dep_id)),
             All("emergency_contacts_cache"),
             One(getPatientCacheKey(p.arg.patient_id)),
             All("patients_cache")>>
      [] OTHER -> <<>>

\* the cache key of a read
ReadKey(p) ==
    CASE p.op = "Doctor.GetByID" -> getDoctorCacheKey(p.arg.id)
      [] p.op = "Doctor.GetAll" -> "doctors_cache"
      [] p.op = "Patient.GetByID" -> getPatientCacheKey(p.arg.id)
      [] p.op = "EmergencyContact.GetByID" ->
           getEmergencyContactCacheKey(p.arg.patient_id, p.arg.dep_id)
      [] p.op = "Appointment.GetByID" ->
           "appointment_cache:" \o p.arg.patient_id \o "_"
               \o ToString(p.arg.dep_id)
      [] OTHER -> ""

ReadType(p) ==
    CASE p.op = "Doctor.GetByID" -> "doctor"
      [] p.op = "Doctor.GetAll" -> "doctors"
      [] p.op = "Patient.GetByID" -> "patient"
      [] p.op = "EmergencyContact.GetByID" -> "emergency_contact"
      [] p.op = "Appointment.GetByID" -> "appointment"
      [] OTHER -> "none"

\* First(&row, ...) over the committed rows (NoRow: gorm.ErrRecordNotFound)
First(rows) == IF rows = {} THEN NoRow ELSE CHOOSE r \in rows : TRUE

\* the struct a Preload of a belongs-to association fills: the referenced
\* row, or the zero value when there is none
Loaded(rows) ==
    IF rows = {} THEN [id |-> "", first_name |-> "", last_name |-> ""]
    ELSE CHOOSE r \in rows : TRUE

\* what the store query of a read returns, serialized
ReadDb(p) ==
    CASE p.op = "Doctor.GetByID" ->
           LET r == First({d \in tblDoctor : d.id = p.arg.id})
           IN  IF r = NoRow THEN NoRow ELSE MarshalDoctor(r)
      [] p.op = "Doctor.GetAll" -> MarshalDoctors(tblDoctor)
      [] p.op = "Patient.GetByID" ->
           LET r == First({d \in tblPatient : d.id = p.arg.id})
           IN  IF r = NoRow THEN NoRow ELSE MarshalPatient(r)
      [] p.op = "EmergencyContact.GetByID" ->
           LET r == First({d \in tblDep : /\ d.t = "emergency_contact"
                                          /\ d.patient_id = p.arg.patient_id
                                          /\ d.id = p.arg.dep_id})
           IN  IF r = NoRow THEN NoRow ELSE MarshalContact(r)
      [] p.op = "Appointment.GetByID" ->
           LET r == First({d \in tblDep : /\ d.t = "appointment"
                                          /\ d.patient_id = p.arg.patient_id
                                          /\ d.id = p.arg.dep_id})
           IN  IF r = NoRow THEN NoRow
               ELSE MarshalAppointment(
                        r,
                        Loaded({d \in tblPatient : d.id = r.patient_id}),
                        Loaded({d \in tblDoctor : d.id = r.doctor_id}))
      [] OTHER -> NoRow

----------------
(* Steps shared by the repositories *)

\* SELECT prefix || LPAD(nextval(seq)::TEXT, 6, '0')
Nextval(w) ==
    /\ proc[w].pc = "nextval"
    /\ \E up \in BOOLEAN :
        LET p == proc[w]
            sq == seqs[SeqOf(p.op)]
            v == IF sq.is_called THEN sq.last_value + 1 ELSE sq.last_value
        IN  /\ Outcome(up)
            /\ IF up
               THEN /\ seqs' = [seqs EXCEPT ![SeqOf(p.op)] =
                                   [last_value |-> v, is_called |-> TRUE]]
                    /\ proc' = [proc EXCEPT ![w] =
                          [Did(p, "nextval") EXCEPT
                              !.nextID = FormatID(PrefixOf(p.op), v),
                              !.arg.id = FormatID(PrefixOf(p.op), v),
                              !.pc = "insert"]]
               ELSE /\ seqs' = seqs
                    /\ proc' = [proc EXCEPT ![w] = Return(p, "StoreError")]
    /\ UNCHANGED <<redisLocks, cacheStore, tblDoctor, tblPatient, tblDep,
                   calls>>

\* SELECT setval(seq, (SELECT last_value FROM seq) - 1, false), after a
\* failed insert; a sequence's minimum is 1, setval below it is an error,
\* and so is every statement of a transaction after a failed one
Setval(w) ==
    /\ proc[w].pc = "setval"
    /\ \E up \in BOOLEAN :
        LET p == proc[w]
            sq == seqs[SeqOf(p.op)]
        IN  /\ Outcome(up)
            /\ seqs' = IF up /\ ~SetvalInTx(p.op) /\ sq.last_value - 1 >= 1
                       THEN [seqs EXCEPT ![SeqOf(p.op)] =
                               [last_value |-> sq.last_value - 1,
                                is_called |-> FALSE]]
                       ELSE seqs
            /\ proc' = [proc EXCEPT ![w] =
                          Return(Did(p, "setval"), "StoreError")]
    /\ UNCHANGED <<redisLocks, cacheStore, tblDoctor, tblPatient, tblDep,
                   calls>>

\* r.cache.Delete(ctx, key) / r.cache.DeleteAll(ctx, pattern), one per step;
\* an error is returned to the caller (inside a transaction: rollback)
Invalidate(w) ==
    /\ proc[w].pc = "inv"
    /\ \E up \in BOOLEAN :
        LET p == proc[w]
            keys == InvKeys(p)
            k == keys[p.j]
            r == IF k.all THEN CacheDeleteAll(cacheStore, k.key, up)
                 ELSE CacheDelete(cacheStore, k.key, up)
            q == Did(p, "cacheDel")
        IN  /\ Outcome(up)
            /\ cacheStore' = r.store
            /\ proc' = [proc EXCEPT ![w] =
                   IF r.err # "nil" THEN Return(q, "CacheError")
                   ELSE IF p.j < Len(keys) THEN [q EXCEPT !.j = @ + 1]
                   ELSE IF UsesTx(p.op) THEN [q EXCEPT !.pc = "commit"]
                   ELSE Return(q, "ok")]
    /\ UNCHANGED <<redisLocks, tblDoctor, tblPatient, tblDep, seqs, calls>>

\* ctx, cancel := context.WithTimeout(ctx, 5*time.Second): the deadline of
\* a read passes.  The cache calls take ctx and fail from then on; the store
\* query is built from database.DB without WithContext(ctx)
Deadline(w) ==
    /\ proc[w].pc \in {"cget", "dbread", "preload", "cset"}
    /\ ~proc[w].ctxDone
    /\ proc' = [proc EXCEPT ![w].ctxDone = TRUE]
    /\ UNCHANGED <<redisLocks, cacheStore, tblDoctor, tblPatient, tblDep,
                   seqs, calls, faults>>

\* the cache lookup of GetByID / GetAll: a hit that decodes is returned
CGet(w) ==
    /\ proc[w].pc = "cget"
    /\ \E up \in BOOLEAN :
        LET p == proc[w]
            r == CacheGet(cacheStore, ReadKey(p), up /\ ~p.ctxDone)
            q == Did(p, "cacheGet")
        IN  /\ Outcome(up)
            /\ proc' = [proc EXCEPT ![w] =
                   IF r.err = "nil" /\ UnmarshalOK(r.val, ReadType(p))
                   THEN [q EXCEPT !.got = r.val, !.ret = "ok", !.pc = "done"]
                   ELSE [q EXCEPT !.pc = "dbread"]]
    /\ UNCHANGED <<redisLocks, cacheStore, tblDoctor, tblPatient, tblDep,
                   seqs, calls>>

\* the associations a read loads after its main query, one query each:
\* Preload("EmergencyContacts", ...). ... .Preload("Appointments", ...)
Preloads(op) == IF op = "Patient.GetByID" THEN DepTypes ELSE <<>>

\* the committed dependent rows of a patient
DepsOf(patientID) == {r \in tblDep : r.patient_id = patientID}

\* an absent row reported like a failure of the store
NotFoundAsError(q) == Return(q, "StoreError")

\* if errors.Is(err, gorm.ErrRecordNotFound) { return nil, nil }
NotFound(q) == [q EXCEPT !.got = NoRow, !.ret = "ok", !.pc = "done"]

\* the store query of GetByID / GetAll
DbRead(w) ==
    /\ proc[w].pc = "dbread"
    /\ \E up \in BOOLEAN :
        LET p == proc[w]
            row == ReadDb(p)
            q == Did(p, "dbRead")
        IN  /\ Outcome(up)
            /\ proc' = [proc EXCEPT ![w] =
                   IF ~up THEN Return(q, "StoreError")
                   ELSE IF row = NoRow
                        THEN NotFound(q)
                        ELSE [q EXCEPT !.got = row, !.j = 1,
                                       !.seen = {DepsOf(p.arg.id)},
                                       !.pc = IF Preloads(p.op) = <<>>
                                              THEN "cset" ELSE "preload"]]
    /\ UNCHANGED <<redisLocks, cacheStore, tblDoctor, tblPatient, tblDep,
                   seqs, calls>>

\* one Preload of the read: SELECT ... FROM <table> WHERE patient_id IN (id),
\* a statement of its own on a pooled connection, outside any transaction;
\* the rows fill the association field of the returned struct (json:"-")
Preload(w) ==
    /\ proc[w].pc = "preload"
    /\ \E up \in BOOLEAN :
        LET p == proc[w]
            ts == Preloads(p.op)
            rows == {r \in DepsOf(p.arg.id) : r.t = ts[p.j]}
        IN  /\ Outcome(up)
            /\ proc' = [proc EXCEPT ![w] =
                   IF ~up THEN Return(p, "StoreError")
                   ELSE [p EXCEPT !.loaded = @ \cup rows,
                                  !.seen = @ \cup {DepsOf(p.arg.id)},
                                  !.j = @ + 1,
                                  !.pc = IF p.j = Len(ts) THEN "cset"
                                         ELSE "preload"]]
    /\ UNCHANGED <<redisLocks, cacheStore, tblDoctor, tblPatient, tblDep,
                   seqs, calls>>

\* a failed cache.Set handed to the caller as the error of the read
AfterCacheSetStrict(p, err) ==
    IF err # "nil" THEN Return(Did(p, "cacheSet"), "CacheError")
    ELSE [Did(p, "cacheSet") EXCEPT !.ret = "ok", !.pc = "done"]

\* if err := r.cache.Set(...); err != nil { log.Printf(...) }; return &row, nil
AfterCacheSet(p, err) == [Did(p, "cacheSet") EXCEPT !.ret = "ok", !.pc = "done"]

\* r.cache.Set(ctx, cacheKey, json, expiry): a failure is only logged
CSet(w) ==
    /\ proc[w].pc = "cset"
    /\ \E up \in BOOLEAN :
        LET p == proc[w]
            r == CacheSet(cacheStore, ReadKey(p), p.got, up /\ ~p.ctxDone)
        IN  /\ Outcome(up)
            /\ cacheStore' = r.store
            /\ proc' = [proc EXCEPT ![w] = AfterCacheSet(p, r.err)]
    /\ UNCHANGED <<redisLocks, tblDoctor, tblPatient, tblDep, seqs, calls>>

\* database.DB.Transaction: the function returned nil: COMMIT makes the
\* inserted rows visible and removes the deleted ones; a failed COMMIT is a
\* rollback
Commit(w) ==
    /\ proc[w].pc = "commit"
    /\ \E up \in BOOLEAN :
        LET p == proc[w]
        IN  /\ Outcome(up)
            /\ tblDoctor' = IF up THEN tblDoctor \cup
                                       {r \in p.tx : r.t = "doctor"}
                            ELSE tblDoctor
            /\ tblPatient' = IF up THEN (tblPatient \ p.txDel) \cup
                                        {r \in p.tx : r.t = "patient"}
                             ELSE tblPatient
            /\ tblDep' = IF up THEN tblDep \ p.txDel ELSE tblDep
            /\ proc' = [proc EXCEPT ![w] =
                   IF up THEN Return(Did(p, "commit"), "ok")
                   ELSE Return(p, "StoreError")]
    /\ UNCHANGED <<redisLocks, cacheStore, seqs, calls>>

----------------------------------------------------------------------------
(* DoctorRepository: repositories/doctorRepository.go *)

FirstNames == {"Ann"}

LastNames == {"Lee", "Roy"}

DoctorIDs == {FormatID("DR", 1)}

DoctorRow(a) ==
    [t |-> "doctor", id |-> a.id, first_name |-> a.first_name,
     last_name |-> a.last_name]

\* a call starts; n is its place in the order of the calls, prev the call
\* its worker ran before it
Begin(w, q) ==
    /\ calls' = calls + 1
    /\ proc' = [proc EXCEPT ![w] = [q EXCEPT !.n = calls + 1,
                                             !.prev = proc[w].op]]
    /\ UNCHANGED <<redisLocks, cacheStore, tblDoctor, tblPatient, tblDep,
                   seqs, faults>>

\* Create: lockKey := "doctor_lock:<first>_<last>", 10s
DoctorCreate(w) ==
    /\ CanStart(w)
    /\ \E fn \in FirstNames, ln \in LastNames :
        Begin(w, NewCall("Doctor.Create",
                         [NoArg EXCEPT !.first_name = fn, !.last_name = ln],
                         "doctor_lock:" \o fn \o "_" \o ln, ShortTTL,
                         calls + 1))

\* Update: lockKey := "doctor_lock:<id>", 10s
DoctorUpdate(w) ==
    /\ CanStart(w)
    /\ \E id \in DoctorIDs, fn \in FirstNames, ln \in LastNames :
        Begin(w, NewCall("Doctor.Update",
                         [NoArg EXCEPT !.id = id, !.first_name = fn,
                                       !.last_name = ln],
                         "doctor_lock:" \o id, ShortTTL, calls + 1))

\* Delete: lockKey := "doctor_lock:<id>", 10s
DoctorDelete(w) ==
    /\ CanStart(w)
    /\ \E id \in DoctorIDs :
        Begin(w, NewCall("Doctor.Delete", [NoArg EXCEPT !.id = id],
                         "doctor_lock:" \o id, ShortTTL, calls + 1))

DoctorGetByID(w) ==
    /\ CanStart(w)
    /\ \E id \in DoctorIDs :
        Begin(w, NewRead("Doctor.GetByID", [NoArg EXCEPT !.id = id]))

DoctorGetAll(w) ==
    /\ CanStart(w)
    /\ Begin(w, NewRead("Doctor.GetAll", NoArg))

\* Create: the uniqueness pre-check on first_name and last_name
DoctorCheck(w) ==
    /\ proc[w].pc = "check"
    /\ proc[w].op = "Doctor.Create"
    /\ \E up \in BOOLEAN :
        LET p == proc[w]
            q == Did(p, "dbRead")
            dup == \E d \in tblDoctor : /\ d.first_name = p.arg.first_name
                                        /\ d.last_name = p.arg.last_name
        IN  /\ Outcome(up)
            /\ proc' = [proc EXCEPT ![w] =
                   IF ~up THEN Return(q, "StoreError")
                   ELSE IF dup THEN Return(q, "Duplicate")
                   ELSE [q EXCEPT !.pc = "nextval"]]
    /\ UNCHANGED <<redisLocks, cacheStore, tblDoctor, tblPatient, tblDep,
                   seqs, calls>>

\* rows another worker has inserted in a transaction not yet committed
PendingElsewhere(w) == UNION {proc[v].tx : v \in Workers \ {w}}

\* rows another worker has deleted in a transaction not yet committed: a
\* statement that touches one of them waits for that transaction to end
LockedElsewhere(w) == UNION {proc[v].txDel : v \in Workers \ {w}}

\* Create: tx.Create(doctor); a failed insert goes to the sequence rollback.
\* An insert of a key that an open transaction has inserted waits for it.
DoctorInsert(w) ==
    /\ proc[w].pc = "insert"
    /\ proc[w].op = "Doctor.Create"
    /\ ~\E r \in PendingElsewhere(w) : r.t = "doctor" /\ r.id = proc[w].arg.id
    /\ \E up \in BOOLEAN :
        LET p == proc[w]
            q == Did(p, "dbWrite")
            pkTaken == \E d \in tblDoctor : d.id = p.arg.id
        IN  /\ Outcome(up)
            /\ proc' = [proc EXCEPT ![w] =
                   IF ~up \/ pkTaken THEN [p EXCEPT !.pc = "setval"]
                   ELSE [q EXCEPT !.tx = {DoctorRow(p.arg)}, !.pc = "inv",
                                  !.j = 1]]
    /\ UNCHANGED <<redisLocks, cacheStore, tblDoctor, tblPatient, tblDep,
                   seqs, calls>>

\* Update: database.DB.Save(doctor): UPDATE by primary key, INSERT if no row
DoctorSave(w) ==
    /\ proc[w].pc = "save"
    /\ proc[w].op = "Doctor.Update"
    /\ \E up \in BOOLEAN :
        LET p == proc[w]
            q == Did(p, "dbWrite")
        IN  /\ Outcome(up)
            /\ tblDoctor' =
                 IF up THEN {d \in tblDoctor : d.id # p.arg.id}
                            \cup {DoctorRow(p.arg)}
                 ELSE tblDoctor
            /\ proc' = [proc EXCEPT ![w] =
                   IF up THEN [q EXCEPT !.pc = "inv", !.j = 1]
                   ELSE Return(p, "StoreError")]
    /\ UNCHANGED <<redisLocks, cacheStore, tblPatient, tblDep, seqs, calls>>

\* Delete: database.DB.Delete(&models.Doctor{}, "id = ?", id)
DoctorDeleteRow(w) ==
    /\ proc[w].pc = "delete"
    /\ proc[w].op = "Doctor.Delete"
    /\ \E up \in BOOLEAN :
        LET p == proc[w]
            q == Did(p, "dbWrite")
        IN  /\ Outcome(up)
            /\ tblDoctor' = IF up THEN {d \in tblDoctor : d.id # p.arg.id}
                            ELSE tblDoctor
            /\ proc' = [proc EXCEPT ![w] =
                   IF up THEN [q EXCEPT !.pc = "inv", !.j = 1]
                   ELSE Return(p, "StoreError")]
    /\ UNCHANGED <<redisLocks, cacheStore, tblPatient, tblDep, seqs, calls>>

----------------------------------------------------------------------------
(* Foreign keys: models (foreignKey:PatientID;references:ID), migrated     *)
(* with DisableForeignKeyConstraintWhenMigrating: false                    *)

\* the foreign-key check dropped
HasDependentsOff(deps, patientID) == FALSE

\* some dependent row references the patient: a DELETE of the patient row
\* is refused (ON DELETE NO ACTION)
HasDependents(deps, patientID) == \E r \in deps : r.patient_id = patientID

\* a delete that takes effect at once instead of at COMMIT
StageDeleteAutocommit(committed, staged, rows) ==
    [committed |-> committed \ rows, staged |-> staged]

\* tx.Delete: the rows are deleted in the transaction and stay in the
\* committed state until COMMIT
StageDelete(committed, staged, rows) ==
    [committed |-> committed, staged |-> staged \cup rows]

----------------------------------------------------------------------------
(* PatientRepository: repositories/patientRepository.go *)

MiddleNames == {"", "Jo"}

BirthDates == {"2001-02-03"}

PatientIDs == {FormatID("DP", 1)}

PatientRow(a) ==
    [t |-> "patient", id |-> a.id, first_name |-> a.first_name,
     middle_name |-> a.middle_name, last_name |-> a.last_name,
     date_of_birth |-> a.date_of_birth]

\* Create: middleName := patient.MiddleName; if "" then "N/A"
MiddleNameOrNA(middleName) == IF middleName = "" THEN "N/A" ELSE middleName

\* Create: lockKey := "patient_lock:<first>_<middleName>_<last>_<dob>", 10s
PatientCreate(w) ==
    /\ CanStart(w)
    /\ \E fn \in FirstNames, mn \in MiddleNames, dob \in BirthDates :
        Begin(w, NewCall("Patient.Create",
                         [NoArg EXCEPT !.first_name = fn, !.middle_name = mn,
                                       !.last_name = "Lee",
                                       !.date_of_birth = dob],
                         "patient_lock:" \o fn \o "_" \o MiddleNameOrNA(mn)
                             \o "_" \o "Lee" \o "_" \o dob,
                         ShortTTL, calls + 1))

\* Delete: lockKey := "patient_lock:<id>", 10s
PatientDelete(w) ==
    /\ CanStart(w)
    /\ \E id \in PatientIDs :
        Begin(w, NewCall("Patient.Delete", [NoArg EXCEPT !.id = id],
                         "patient_lock:" \o id, ShortTTL, calls + 1))

\* DeletePatientAndRelated: lockKey := "patient_lock:<id>", time.Minute,
\* acquired by a single NewLock
PatientDeletePatientAndRelated(w) ==
    /\ CanStart(w)
    /\ \E id \in PatientIDs :
        Begin(w, [NewCall("Patient.DeletePatientAndRelated",
                          [NoArg EXCEPT !.id = id],
                          "patient_lock:" \o id, LongTTL, calls + 1)
                  EXCEPT !.pc = "acquire"])

PatientGetByID(w) ==
    /\ CanStart(w)
    /\ \E id \in PatientIDs :
        Begin(w, NewRead("Patient.GetByID", [NoArg EXCEPT !.id = id]))

\* DeletePatientAndRelated: locked, err := NewLock(...); no loop
AcquireOnce(w) ==
    /\ proc[w].pc = "acquire"
    /\ \E up \in BOOLEAN :
        LET p == proc[w]
            r == NewLock(redisLocks, p.lockKey, p.lockValue, p.ttl, up)
            q == [p EXCEPT !.i = @ + 1, !.locked = r.ok, !.err = r.err,
                           !.after = IF r.ok THEN AcquiredBefore(w) ELSE @]
        IN  /\ Outcome(up)
            /\ redisLocks' = r.locks
            /\ proc' = [proc EXCEPT ![w] = AfterLockLoop(q)]
    /\ UNCHANGED <<cacheStore, tblDoctor, tblPatient, tblDep, seqs, calls>>

\* Create: the uniqueness pre-check, with middleName in place of the middle
\* name
PatientCheck(w) ==
    /\ proc[w].pc = "check"
    /\ proc[w].op = "Patient.Create"
    /\ \E up \in BOOLEAN :
        LET p == proc[w]
            q == Did(p, "dbRead")
            dup == \E d \in tblPatient :
                      /\ d.first_name = p.arg.first_name
                      /\ d.middle_name = MiddleNameOrNA(p.arg.middle_name)
                      /\ d.last_name = p.arg.last_name
                      /\ d.date_of_birth = p.arg.date_of_birth
        IN  /\ Outcome(up)
            /\ proc' = [proc EXCEPT ![w] =
                   IF ~up THEN Return(q, "StoreError")
                   ELSE IF dup THEN Return(q, "Duplicate")
                   ELSE [q EXCEPT !.pc = "nextval"]]
    /\ UNCHANGED <<redisLocks, cacheStore, tblDoctor, tblPatient, tblDep,
                   seqs, calls>>

\* Create: tx.Create(patient), the row as the caller passed it
PatientInsert(w) ==
    /\ proc[w].pc = "insert"
    /\ proc[w].op = "Patient.Create"
    /\ ~\E r \in PendingElsewhere(w) : r.t = "patient" /\ r.id = proc[w].arg.id
    /\ \E up \in BOOLEAN :
        LET p == proc[w]
            q == Did(p, "dbWrite")
            pkTaken == \E d \in tblPatient : d.id = p.arg.id
        IN  /\ Outcome(up)
            /\ proc' = [proc EXCEPT ![w] =
                   IF ~up \/ pkTaken THEN [p EXCEPT !.pc = "setval"]
                   ELSE [q EXCEPT !.tx = {PatientRow(p.arg)}, !.pc = "inv",
                                  !.j = 1]]
    /\ UNCHANGED <<redisLocks, cacheStore, tblDoctor, tblPatient, tblDep,
                   seqs, calls>>

\* Delete: database.DB.Delete(&models.Patient{}, "id = ?", id); the
\* statement waits while a transaction holds the row or one of its dependents
PatientDeleteRow(w) ==
    /\ proc[w].pc = "delete"
    /\ proc[w].op = "Patient.Delete"
    /\ ~\E r \in LockedElsewhere(w) :
          \/ r.t = "patient" /\ r.id = proc[w].arg.id
          \/ r.t # "patient" /\ r.patient_id = proc[w].arg.id
    /\ \E up \in BOOLEAN :
        LET p == proc[w]
            q == Did(p, "dbWrite")
            refused == HasDependents(tblDep, p.arg.id)
        IN  /\ Outcome(up)
            /\ tblPatient' = IF up /\ ~refused
                             THEN {d \in tblPatient : d.id # p.arg.id}
                             ELSE tblPatient
            /\ proc' = [proc EXCEPT ![w] =
                   IF up /\ ~refused THEN [q EXCEPT !.pc = "inv", !.j = 1]
                   ELSE Return(p, "StoreError")]
    /\ UNCHANGED <<redisLocks, cacheStore, tblDoctor, tblDep, seqs, calls>>

\* after the work on dependent table j: the next table, or the next phase
NextTable(p, this, next) ==
    IF p.j < Len(DepTypes) THEN [p EXCEPT !.j = @ + 1, !.rows = {}, !.pc = this]
    ELSE [p EXCEPT !.j = 1, !.rows = {}, !.pc = next]

\* a Find that returns no row
FindRowsNone(deps, p) == {}

\* tx.Where("patient_id = ?", patientID).Find(&rows) on the table of the
\* dependent type the call is at
FindRows(deps, p) ==
    {r \in deps : r.t = DepTypes[p.j] /\ r.patient_id = p.arg.id}

\* invalidate<Dependents>Cache: tx.Where("patient_id = ?", id).Find(&rows);
\* the first one is the first statement of the transaction
DPAREnumerate(w) ==
    /\ proc[w].pc = "enum"
    /\ \E up \in BOOLEAN :
        LET p == proc[w]
            q == [Did(p, "dbRead") EXCEPT
                      !.seen = IF p.j = 1
                               THEN {DepsOf(p.arg.id)}
                               ELSE @]
            found == FindRows(tblDep \ p.txDel, p)
        IN  /\ Outcome(up)
            /\ proc' = [proc EXCEPT ![w] =
                   IF ~up THEN Return(q, "StoreError")
                   ELSE IF found = {} THEN NextTable(q, "enum", "txdel")
                   ELSE [q EXCEPT !.rows = found, !.pc = "enuminv"]]
    /\ UNCHANGED <<redisLocks, cacheStore, tblDoctor, tblPatient, tblDep,
                   seqs, calls>>

\* invalidate<Dependents>Cache: for each row found, <repo>.DeleteCache
DPARInvalidateRow(w) ==
    /\ proc[w].pc = "enuminv"
    /\ \E up \in BOOLEAN, r \in proc[w].rows :
        LET p == proc[w]
            q == Did(p, "cacheDel")
            c == CacheDelete(cacheStore, DepCacheKey(r), up)
        IN  /\ Outcome(up)
            /\ cacheStore' = c.store
            /\ proc' = [proc EXCEPT ![w] =
                   IF c.err # "nil" THEN Return(q, "CacheError")
                   ELSE IF p.rows = {r}
                        THEN NextTable([q EXCEPT !.purged = @ \cup {r}],
                                       "enum", "txdel")
                   ELSE [q EXCEPT !.rows = @ \ {r},
                                  !.purged = @ \cup {r}]]
    /\ UNCHANGED <<redisLocks, tblDoctor, tblPatient, tblDep, seqs, calls>>

\* tx.Where("patient_id = ?", id).Delete(&models.<Dependent>{})
DPARDeleteDependents(w) ==
    /\ proc[w].pc = "txdel"
    /\ LET p == proc[w]
           target == {r \in tblDep \ p.txDel :
                        r.t = DepTypes[p.j] /\ r.patient_id = p.arg.id}
       IN  /\ target \cap LockedElsewhere(w) = {}
           /\ \E up \in BOOLEAN :
               LET s == StageDelete(tblDep, p.txDel, target)
                   q == Did(p, "dbWrite")
               IN  /\ Outcome(up)
                   /\ tblDep' = IF up THEN s.committed ELSE tblDep
                   /\ proc' = [proc EXCEPT ![w] =
                          IF ~up THEN Return(p, "StoreError")
                          ELSE NextTable([q EXCEPT !.txDel = s.staged],
                                         "txdel", "txdelp")]
    /\ UNCHANGED <<redisLocks, cacheStore, tblDoctor, tblPatient, seqs, calls>>

\* tx.Delete(&models.Patient{}, "id = ?", id): refused while a dependent
\* row that this transaction has not deleted references the patient
DPARDeletePatient(w) ==
    /\ proc[w].pc = "txdelp"
    /\ LET p == proc[w]
           target == {r \in tblPatient \ p.txDel : r.id = p.arg.id}
           visible == tblDep \ p.txDel
       IN  /\ target \cap LockedElsewhere(w) = {}
           /\ ~\E r \in LockedElsewhere(w) :
                 r.t # "patient" /\ r.patient_id = p.arg.id
           /\ \E up \in BOOLEAN :
               LET s == StageDelete(tblPatient, p.txDel, target)
                   q == Did(p, "dbWrite")
                   refused == HasDependents(visible, p.arg.id)
               IN  /\ Outcome(up)
                   /\ tblPatient' = IF up /\ ~refused THEN s.committed
                                    ELSE tblPatient
                   /\ proc' = [proc EXCEPT ![w] =
                          IF ~up \/ refused THEN Return(p, "StoreError")
                          ELSE [q EXCEPT !.txDel = s.staged, !.pc = "inv",
                                         !.j = 1]]
    /\ UNCHANGED <<redisLocks, cacheStore, tblDoctor, tblDep, seqs, calls>>

----------------------------------------------------------------------------
(* EmergencyContactRepository: repositories/emergencyContactRepository.go *)

Phones == {"0700"}

NewPhones == {"0711"}

ContactIDs == {1}

AppointmentIDs == {1}

ContactRow(a) ==
    [t |-> "emergency_contact", id |-> a.dep_id, patient_id |-> a.patient_id,
     phone |-> a.phone]

\* Create: lockKey := "emergency_contact_lock:<patientID>", 10s
ContactCreateOf(w, phones) ==
    /\ CanStart(w)
    /\ \E pid \in PatientIDs, ph \in phones :
        Begin(w, NewCall("EmergencyContact.Create",
                         [NoArg EXCEPT !.patient_id = pid, !.phone = ph],
                         "emergency_contact_lock:" \o pid, ShortTTL,
                         calls + 1))

ContactCreate(w) == ContactCreateOf(w, Phones)

\* Create of a contact with the persisted phone or with a new one
ContactCreateAny(w) == ContactCreateOf(w, Phones \cup NewPhones)

ContactGetByID(w) ==
    /\ CanStart(w)
    /\ \E pid \in PatientIDs, id \in ContactIDs :
        Begin(w, NewRead("EmergencyContact.GetByID",
                         [NoArg EXCEPT !.patient_id = pid, !.dep_id = id]))

\* Update: lockKey := "emergency_contact_lock:<patientID>_<id>", 10s
ContactUpdate(w) ==
    /\ CanStart(w)
    /\ \E pid \in PatientIDs, id \in ContactIDs, ph \in Phones \cup NewPhones :
        Begin(w, NewCall("EmergencyContact.Update",
                         [NoArg EXCEPT !.patient_id = pid, !.dep_id = id,
                                       !.phone = ph],
                         "emergency_contact_lock:" \o pid \o "_"
                             \o ToString(id),
                         ShortTTL, calls + 1))

\* Delete: lockKey := "emergency_contact_lock:<patientID>_<id>", 10s
ContactDelete(w) ==
    /\ CanStart(w)
    /\ \E pid \in PatientIDs, id \in ContactIDs :
        Begin(w, NewCall("EmergencyContact.Delete",
                         [NoArg EXCEPT !.patient_id = pid, !.dep_id = id],
                         "emergency_contact_lock:" \o pid \o "_"
                             \o ToString(id),
                         ShortTTL, calls + 1))

\* Delete: database.DB.Delete(&models.EmergencyContact{},
\* "patient_id = ? AND id = ?", patientID, id)
ContactDeleteRow(w) ==
    /\ proc[w].pc = "cdelete"
    /\ \E up \in BOOLEAN :
        LET p == proc[w]
            q == Did(p, "dbWrite")
        IN  /\ Outcome(up)
            /\ tblDep' = IF up
                         THEN {r \in tblDep : ~( /\ r.t = "emergency_contact"
                                                 /\ r.patient_id = p.arg.patient_id
                                                 /\ r.id = p.arg.dep_id )}
                         ELSE tblDep
            /\ proc' = [proc EXCEPT ![w] =
                   IF up THEN [q EXCEPT !.pc = "inv", !.j = 1]
                   ELSE Return(p, "StoreError")]
    /\ UNCHANGED <<redisLocks, cacheStore, tblDoctor, tblPatient, seqs, calls>>

\* the GetByID that Update calls, seen from Update
AsGetByID(p) == [op |-> "EmergencyContact.GetByID", arg |-> p.arg]

\* Update: existingContact, err := r.GetByID(...): the cache lookup of
\* GetByID; a cached value that decodes is the existing contact
FetchedFromCache(p, r) ==
    IF r.err = "nil" /\ UnmarshalOK(r.val, "emergency_contact")
    THEN [p EXCEPT !.got = r.val, !.pc = "csave"]
    ELSE [p EXCEPT !.pc = "fetchdb"]

ContactFetch(w) ==
    /\ proc[w].pc = "fetch"
    /\ \E up \in BOOLEAN :
        LET p == proc[w]
            r == CacheGet(cacheStore, ReadKey(AsGetByID(p)), up)
        IN  /\ Outcome(up)
            /\ proc' = [proc EXCEPT ![w] =
                   FetchedFromCache(Did(p, "cacheGet"), r)]
    /\ UNCHANGED <<redisLocks, cacheStore, tblDoctor, tblPatient, tblDep,
                   seqs, calls>>

\* Update: the store query of GetByID; if existingContact == nil
\* { return errors.New("emergency contact not found") }
ContactFetchStore(w) ==
    /\ proc[w].pc = "fetchdb"
    /\ \E up \in BOOLEAN :
        LET p == proc[w]
            row == ReadDb(AsGetByID(p))
            q == Did(p, "dbRead")
        IN  /\ Outcome(up)
            /\ proc' = [proc EXCEPT ![w] =
                   IF ~up THEN Return(q, "StoreError")
                   ELSE IF row = NoRow THEN Return(q, "NotFound")
                   ELSE [q EXCEPT !.got = row, !.pc = "fetchset"]]
    /\ UNCHANGED <<redisLocks, cacheStore, tblDoctor, tblPatient, tblDep,
                   seqs, calls>>

\* Update: the cache.Set of GetByID; a failure is only logged
ContactFetchSet(w) ==
    /\ proc[w].pc = "fetchset"
    /\ \E up \in BOOLEAN :
        LET p == proc[w]
            r == CacheSet(cacheStore, ReadKey(AsGetByID(p)), p.got, up)
        IN  /\ Outcome(up)
            /\ cacheStore' = r.store
            /\ proc' = [proc EXCEPT ![w] =
                   [Did(p, "cacheSet") EXCEPT !.pc = "csave"]]
    /\ UNCHANGED <<redisLocks, tblDoctor, tblPatient, tblDep, seqs, calls>>

\* Update: existingContact.Name, .Relationship, .Phone = contact...;
\* database.DB.Save(existingContact): UPDATE ... WHERE id = ?, and when no
\* row was updated INSERT ... ON CONFLICT (id) DO UPDATE.  The statement
\* fails without the patient row and on a second row with (patient_id, phone)
ContactSave(w) ==
    /\ proc[w].pc = "csave"
    /\ \E up \in BOOLEAN :
        LET p == proc[w]
            row == [t |-> "emergency_contact", id |-> p.got.id,
                    patient_id |-> p.got.patient_id, phone |-> p.arg.phone]
            parent == \E d \in tblPatient : d.id = row.patient_id
            clash == \E r \in tblDep : /\ r.t = "emergency_contact"
                                       /\ r.patient_id = row.patient_id
                                       /\ r.phone = row.phone
                                       /\ r.id # row.id
            ok == up /\ parent /\ ~clash
        IN  /\ Outcome(up)
            /\ tblDep' = IF ok
                         THEN {r \in tblDep : ~( /\ r.t = "emergency_contact"
                                                 /\ r.id = row.id )}
                                  \cup {row}
                         ELSE tblDep
            /\ proc' = [proc EXCEPT ![w] =
                   IF ok THEN [Did(p, "dbWrite") EXCEPT !.pc = "inv", !.j = 1]
                   ELSE Return(p, "StoreError")]
    /\ UNCHANGED <<redisLocks, cacheStore, tblDoctor, tblPatient, seqs, calls>>

\* AppointmentRepository.GetByID(ctx, patientID, id)
AppointmentGetByID(w) ==
    /\ CanStart(w)
    /\ \E pid \in PatientIDs, id \in AppointmentIDs :
        Begin(w, NewRead("Appointment.GetByID",
                         [NoArg EXCEPT !.patient_id = pid, !.dep_id = id]))

\* Create: INSERT ... ON CONFLICT (patient_id, phone) DO UPDATE ...
\* RETURNING id.  The id default draws from the sequence before the conflict
\* and foreign-key checks; the statement waits while a transaction holds the
\* patient row or the conflicting row.
ContactUpsert(w) ==
    /\ proc[w].pc = "upsert"
    /\ LET p == proc[w]
           same == {r \in tblDep : /\ r.t = "emergency_contact"
                                   /\ r.patient_id = p.arg.patient_id
                                   /\ r.phone = p.arg.phone}
           sq == seqs[SeqOf(p.op)]
           v == IF sq.is_called THEN sq.last_value + 1 ELSE sq.last_value
           parent == \E d \in tblPatient : d.id = p.arg.patient_id
       IN  /\ same \cap LockedElsewhere(w) = {}
           /\ ~\E r \in LockedElsewhere(w) :
                 r.t = "patient" /\ r.id = p.arg.patient_id
           /\ \E up \in BOOLEAN :
               LET id == IF same = {} THEN v ELSE First(same).id
                   q == [Did(p, "dbWrite") EXCEPT !.arg.dep_id = id,
                                                  !.pc = "inv", !.j = 1]
               IN  /\ Outcome(up)
                   /\ seqs' = IF up THEN [seqs EXCEPT ![SeqOf(p.op)] =
                                  [last_value |-> v, is_called |-> TRUE]]
                              ELSE seqs
                   /\ tblDep' = IF up /\ parent /\ same = {}
                                THEN tblDep \cup {ContactRow(q.arg)}
                                ELSE tblDep
                   /\ proc' = [proc EXCEPT ![w] =
                          IF up /\ parent THEN q
                          ELSE Return(p, "StoreError")]
    /\ UNCHANGED <<redisLocks, cacheStore, tblDoctor, tblPatient, calls>>

----------------------------------------------------------------------------
(* User service and repository: unnamed/part_003, *)
(* repositories/treatmentPlanRepository.go (userRepository) *)

UserIDs == {1}

Emails == {"ann@lee", "ann@roy"}

NoUserArg == [id |-> 0, email |-> "", code |-> "", password |-> ""]

\* getUserCacheKey(identifier): "user_cache:<identifier>"
getUserCacheKey(identifier) == "user_cache:" \o identifier

\* json.Marshal(user) of a row read with Select("id, username, email,
\* role_id, created_at"): the password is the zero value
MarshalUser(r) ==
    [t |-> "user", id |-> r.id, username |-> r.username, email |-> r.email,
     password |-> ""]

\* the committed rows of table users
Users == {r \in tblDep : r.t = "user"}

UserReads == {"User.GetUserByID", "User.GetUserByEmail"}

\* the identifier GetUserByID / GetUserByEmail build their cache key from;
\* the service methods look the user up by id, ChangePassword by email
\* before it calls UpdateUserPassword
ByEmail(p) ==
    \/ p.op = "User.GetUserByEmail"
    \/ p.op = "Auth.ChangePassword" /\ ~p.locked

UserIdent(p) == IF ByEmail(p) THEN p.arg.email ELSE ToString(p.arg.id)

\* First(&user, userID) / Where("email = ?", email).First(&user)
UserQuery(p) ==
    IF ByEmail(p)
    THEN First({r \in Users : r.email = p.arg.email})
    ELSE First({r \in Users : r.id = p.arg.id})

\* a user call without a lock: first step is the cache lookup
NewUserRead(op, arg) == [IdleProc EXCEPT !.op = op, !.arg = arg, !.pc = "ucget"]

\* a user call of the service: NewLock("user_lock:<id>", uuid, time.Minute),
\* one attempt
NewUserCall(op, arg, uuid) ==
    [NewCall(op, arg, "user_lock:" \o ToString(arg.id), LongTTL, uuid)
        EXCEPT !.pc = "acquire"]

UserGetByID(w) ==
    /\ CanStart(w)
    /\ \E id \in UserIDs :
        Begin(w, NewUserRead("User.GetUserByID", [NoUserArg EXCEPT !.id = id]))

UserGetByEmail(w) ==
    /\ CanStart(w)
    /\ \E e \in Emails :
        Begin(w, NewUserRead("User.GetUserByEmail",
                             [NoUserArg EXCEPT !.email = e]))

UserUpdateEmail(w) ==
    /\ CanStart(w)
    /\ \E id \in UserIDs, e \in Emails :
        Begin(w, NewUserCall("User.UpdateUserEmail",
                             [NoUserArg EXCEPT !.id = id, !.email = e],
                             calls + 1))

UserDelete(w) ==
    /\ CanStart(w)
    /\ \E id \in UserIDs :
        Begin(w, NewUserCall("User.DeleteUser", [NoUserArg EXCEPT !.id = id],
                             calls + 1))

\* GetUserBy... has its user: a read returns it; UpdateUserEmail goes on to
\* DeleteUserCache(user.Email), UpdateUserPassword and DeleteUser to
\* DeleteUserCache(user.Username); ChangePassword calls
\* UpdateUserPassword(ctx, user.ID, hashedPassword), which starts with
\* NewLock("user_lock:<id>", uuid, time.Minute)
UserFetched(p, user) ==
    CASE p.op \in UserReads -> [p EXCEPT !.got = user, !.ret = "ok",
                                         !.pc = "done"]
      [] p.op = "Auth.ChangePassword" /\ ~p.locked ->
             [p EXCEPT !.got = user, !.arg.id = user.id,
                       !.lockKey = "user_lock:" \o ToString(user.id),
                       !.pc = "acquire"]
      [] p.op = "User.UpdateUserEmail" -> [p EXCEPT !.got = user,
                                                    !.pc = "udelold"]
      [] OTHER -> [p EXCEPT !.got = user, !.pc = "udelname"]

\* GetUserBy...: cachedUser, err := r.cache.Get(ctx, cacheKey); a value that
\* decodes is the user
UserCacheGet(w) ==
    /\ proc[w].pc = "ucget"
    /\ \E up \in BOOLEAN :
        LET p == proc[w]
            r == CacheGet(cacheStore, getUserCacheKey(UserIdent(p)), up)
            q == Did(p, "cacheGet")
        IN  /\ Outcome(up)
            /\ proc' = [proc EXCEPT ![w] =
                   IF r.err = "nil" /\ UnmarshalOK(r.val, "user")
                   THEN UserFetched(q, r.val)
                   ELSE [q EXCEPT !.pc = "udbread"]]
    /\ UNCHANGED <<redisLocks, cacheStore, tblDoctor, tblPatient, tblDep,
                   seqs, calls>>

\* GetUserBy...: the store query; ErrRecordNotFound is (nil, nil), which the
\* service methods turn into "user not found"
UserDbRead(w) ==
    /\ proc[w].pc = "udbread"
    /\ \E up \in BOOLEAN :
        LET p == proc[w]
            row == UserQuery(p)
            q == Did(p, "dbRead")
        IN  /\ Outcome(up)
            /\ proc' = [proc EXCEPT ![w] =
                   IF ~up THEN Return(q, "StoreError")
                   ELSE IF row = NoRow
                        THEN IF p.op \in UserReads THEN NotFound(q)
                             ELSE Return(q, "NotFound")
                   ELSE [q EXCEPT !.got = MarshalUser(row), !.pc = "ucset"]]
    /\ UNCHANGED <<redisLocks, cacheStore, tblDoctor, tblPatient, tblDep,
                   seqs, calls>>

\* GetUserBy...: r.cache.Set(ctx, cacheKey, userJSON, UserCacheExpiry); a
\* failure is only logged
UserCacheSet(w) ==
    /\ proc[w].pc = "ucset"
    /\ \E up \in BOOLEAN :
        LET p == proc[w]
            r == CacheSet(cacheStore, getUserCacheKey(UserIdent(p)), p.got, up)
        IN  /\ Outcome(up)
            /\ cacheStore' = r.store
            /\ proc' = [proc EXCEPT ![w] =
                   UserFetched(Did(p, "cacheSet"), p.got)]
    /\ UNCHANGED <<redisLocks, tblDoctor, tblPatient, tblDep, seqs, calls>>

\* UpdateUserEmail: Model(&User{}).Where("id = ?", userID).Update("email", e)
UserSetEmail(w) ==
    /\ proc[w].pc = "uemail"
    /\ \E up \in BOOLEAN :
        LET p == proc[w]
        IN  /\ Outcome(up)
            /\ tblDep' = IF up
                         THEN {IF r.t = "user" /\ r.id = p.arg.id
                               THEN [r EXCEPT !.email = p.arg.email] ELSE r :
                               r \in tblDep}
                         ELSE tblDep
            /\ proc' = [proc EXCEPT ![w] =
                   IF up THEN [Did(p, "dbWrite") EXCEPT !.pc = "udelnew"]
                   ELSE Return(p, "StoreError")]
    /\ UNCHANGED <<redisLocks, cacheStore, tblDoctor, tblPatient, seqs, calls>>

\* the identifier of the DeleteUserCache call the service method is at
DeletedIdent(p) ==
    CASE p.pc = "udelnew" -> p.arg.email
      [] p.pc = "udelold" -> p.got.email
      [] OTHER -> p.got.username

\* what follows a DeleteUserCache that worked
AfterUserCacheDelete(p) ==
    CASE p.pc = "udelnew" -> [p EXCEPT !.pc = "ucget"]
      [] p.pc = "udelname" /\ p.op = "User.DeleteUser" ->
             [p EXCEPT !.pc = "udelrow"]
      [] OTHER -> Return(p, "ok")

\* s.userRepo.DeleteUserCache(ctx, identifier): its error is returned
UserCacheDelete(w) ==
    /\ proc[w].pc \in {"udelnew", "udelold", "udelname"}
    /\ \E up \in BOOLEAN :
        LET p == proc[w]
            r == CacheDelete(cacheStore, getUserCacheKey(DeletedIdent(p)), up)
            q == Did(p, "cacheDel")
        IN  /\ Outcome(up)
            /\ cacheStore' = r.store
            /\ proc' = [proc EXCEPT ![w] =
                   IF r.err # "nil" THEN Return(q, "CacheError")
                   ELSE AfterUserCacheDelete(q)]
    /\ UNCHANGED <<redisLocks, tblDoctor, tblPatient, tblDep, seqs, calls>>

\* DeleteUser: r.db.Delete(&models.User{}, userID)
UserDeleteRow(w) ==
    /\ proc[w].pc = "udelrow"
    /\ \E up \in BOOLEAN :
        LET p == proc[w]
        IN  /\ Outcome(up)
            /\ tblDep' = IF up
                         THEN {r \in tblDep : ~(r.t = "user" /\ r.id = p.arg.id)}
                         ELSE tblDep
            /\ proc' = [proc EXCEPT ![w] =
                   IF up THEN Return(Did(p, "dbWrite"), "ok")
                   ELSE Return(p, "StoreError")]
    /\ UNCHANGED <<redisLocks, cacheStore, tblDoctor, tblPatient, seqs, calls>>

----------------------------------------------------------------------------
(* Password reset: handlers/authHandler.go, utils/authResetCode.go, *)
(* userService.UpdateUserPassword of unnamed/part_003 *)

Codes == {"c1", "c2"}

Passwords == {"h1", "h2"}

\* "reset_code:" + email
ResetCodeKey(email) == "reset_code:" \o email

\* the string SetResetCode stores
StoredCode(code) == [t |-> "code", code |-> code]

\* POST of {email, code, new_password}
ChangePassword(w) ==
    /\ CanStart(w)
    /\ \E e \in Emails, c \in Codes, pw \in Passwords :
        Begin(w, [IdleProc EXCEPT
                    !.op = "Auth.ChangePassword",
                    !.arg = [NoUserArg EXCEPT !.email = e, !.code = c,
                                              !.password = pw],
                    !.lockValue = calls + 1, !.ttl = LongTTL,
                    !.pc = "getcode"])

\* storedCode, err := utils.GetResetCode(ctx, data.Email); 401 unless the
\* stored code is there and equals data.Code
GetResetCode(w) ==
    /\ proc[w].pc = "getcode"
    /\ \E up \in BOOLEAN :
        LET p == proc[w]
            r == CacheGet(cacheStore, ResetCodeKey(p.arg.email), up)
            q == Did(p, "cacheGet")
        IN  /\ Outcome(up)
            /\ proc' = [proc EXCEPT ![w] =
                   IF r.err # "nil" \/ r.val = EmptyVal
                      \/ r.val # StoredCode(p.arg.code)
                   THEN Return(q, "InvalidCode")
                   ELSE [q EXCEPT !.pc = "ucget"]]
    /\ UNCHANGED <<redisLocks, cacheStore, tblDoctor, tblPatient, tblDep,
                   seqs, calls>>

\* UpdateUserPassword: Model(&User{}).Where("id = ?", userID).
\* Update("password", hashedPassword)
UserSetPassword(w) ==
    /\ proc[w].pc = "upass"
    /\ \E up \in BOOLEAN :
        LET p == proc[w]
        IN  /\ Outcome(up)
            /\ tblDep' = IF up
                         THEN {IF r.t = "user" /\ r.id = p.arg.id
                               THEN [r EXCEPT !.password = p.arg.password]
                               ELSE r : r \in tblDep}
                         ELSE tblDep
            /\ proc' = [proc EXCEPT ![w] =
                   IF up THEN [Did(p, "dbWrite") EXCEPT !.pc = "ucget"]
                   ELSE Return(p, "StoreError")]
    /\ UNCHANGED <<redisLocks, cacheStore, tblDoctor, tblPatient, seqs, calls>>

\* utils.DeleteResetCode(ctx, data.Email); c.Status(200): the error of the
\* deletion is dropped
DeleteResetCode(w) ==
    /\ proc[w].pc = "delcode"
    /\ \E up \in BOOLEAN :
        LET p == proc[w]
            r == CacheDelete(cacheStore, ResetCodeKey(p.arg.email), up)
        IN  /\ Outcome(up)
            /\ cacheStore' = r.store
            /\ proc' = [proc EXCEPT ![w] =
                   [Did(p, "codeDel") EXCEPT !.pc = "done"]]
    /\ UNCHANGED <<redisLocks, tblDoctor, tblPatient, tblDep, seqs, calls>>

----------------------------------------------------------------------------
(* Rate-limiter middleware: middlewares/ratelimit.go, routes/routes.go *)

\* the requests whose middleware call holds data.mu
MuHolders == {w \in Workers : proc[w].mu}

\* a request has entered the middleware and is at data.mu.Lock()
AtMutex(p) == [p EXCEPT !.pc = "mu"]

\* router.Use(NewRateLimiterMiddleware(...)) precedes every route: a request
\* for Doctor.Update or Doctor.GetByID arrives on a goroutine of its own
Request(w) ==
    /\ CanStart(w)
    /\ ~proc[w].mu
    /\ \/ \E id \in DoctorIDs, fn \in FirstNames, ln \in LastNames :
            Begin(w, AtMutex(NewCall("Doctor.Update",
                                     [NoArg EXCEPT !.id = id, !.first_name = fn,
                                                   !.last_name = ln],
                                     "doctor_lock:" \o id, ShortTTL,
                                     calls + 1)))
       \/ \E id \in DoctorIDs :
            Begin(w, AtMutex(NewRead("Doctor.GetByID",
                                     [NoArg EXCEPT !.id = id])))

\* data.mu.Lock() returns when no other request holds the mutex
CanAdmit(w) ==
    /\ proc[w].pc = "mu"
    /\ MuHolders = {}

\* the first step of the handler c.Next() runs
HandlerEntry(p) == IF p.lockKey = "" THEN "cget" ELSE "lock"

\* data.mu.Lock(); if !data.limiter.Allow() { abort with 429; return };
\* c.Next(). Allow depends on the time since the last requests: either
\* outcome. The handler runs inside the middleware call, the mutex held
Admit(w) ==
    /\ CanAdmit(w)
    /\ \E allow \in BOOLEAN :
        LET p == proc[w]
        IN  proc' = [proc EXCEPT ![w] =
                IF allow THEN [p EXCEPT !.mu = TRUE, !.pc = HandlerEntry(p)]
                ELSE [p EXCEPT !.mu = TRUE, !.pc = "done",
                               !.ret = "TooManyRequests"]]
    /\ UNCHANGED <<redisLocks, cacheStore, tblDoctor, tblPatient, tblDep,
                   seqs, calls, faults>>

\* defer data.mu.Unlock(): runs when the middleware function returns, after
\* c.Next() has returned or after the abort
Unlock(w) ==
    /\ proc[w].pc = "done"
    /\ proc[w].mu
    /\ proc' = [proc EXCEPT ![w].mu = FALSE]
    /\ UNCHANGED <<redisLocks, cacheStore, tblDoctor, tblPatient, tblDep,
                   seqs, calls, faults>>

\* the request is inside the handler that c.Next() called
InHandler(w) == proc[w].mu /\ proc[w].pc # "done"

----------------------------------------------------------------------------
(* Specifications *)

SeqNames == {"doctor_id_seq", "patient_id_seq", "emergency_contact_id_seq"}

EmptyMap == [k \in {} |-> NoRow]

\* a fresh sequence: CREATE SEQUENCE starts at 1, not yet called
FreshSeq == [last_value |-> 1, is_called |-> FALSE]

\* a sequence after n calls of nextval
UsedSeq(n) == [last_value |-> n, is_called |-> TRUE]

\* the state after construction: empty store, empty Redis, workers idle
InitEmpty ==
    /\ redisLocks = EmptyMap
    /\ cacheStore = EmptyMap
    /\ tblDoctor = {}
    /\ tblPatient = {}
    /\ tblDep = {}
    /\ seqs = [n \in SeqNames |-> FreshSeq]
    /\ calls = 0
    /\ faults = 0
    /\ proc = [w \in Workers |-> IdleProc]

\* doctor DR-000001 has been created by an earlier Doctor.Create
Init ==
    /\ redisLocks = EmptyMap
    /\ cacheStore = EmptyMap
    /\ tblDoctor = {DoctorRow([id |-> FormatID("DR", 1), first_name |-> "Ann",
                               last_name |-> "Lee"])}
    /\ tblPatient = {}
    /\ tblDep = {}
    /\ seqs = [n \in SeqNames |->
                 IF n = "doctor_id_seq" THEN UsedSeq(1) ELSE FreshSeq]
    /\ calls = 0
    /\ faults = 0
    /\ proc = [w \in Workers |-> IdleProc]

\* Update and Delete of the doctor repository run by concurrent workers,
\* with lock expiry
Next ==
    \/ \E w \in Workers :
        \/ DoctorUpdate(w)
        \/ DoctorDelete(w)
        \/ TryLock(w)
        \/ DoctorSave(w)
        \/ DoctorDeleteRow(w)
        \/ Invalidate(w)
        \/ Release(w)
    \/ \E k \in DOMAIN redisLocks : Expire(k)

Spec == Init /\ [][Next]_vars

\* no call is running
Quiescent == \A w \in Workers : proc[w].pc \in {"idle", "done"}

\* the calls of the doctor repository and Patient.Create one after the
\* other, from the empty store: a call starts only when no other call is
\* running
NextSeq ==
    \/ \E w \in Workers :
        \/ Quiescent /\ DoctorCreate(w)
        \/ Quiescent /\ PatientCreate(w)
        \/ Quiescent /\ DoctorUpdate(w)
        \/ Quiescent /\ DoctorDelete(w)
        \/ Quiescent /\ DoctorGetByID(w)
        \/ Quiescent /\ DoctorGetAll(w)
        \/ Quiescent /\ PatientGetByID(w)
        \/ TryLock(w)
        \/ DoctorCheck(w)
        \/ Nextval(w)
        \/ DoctorInsert(w)
        \/ PatientCheck(w)
        \/ PatientInsert(w)
        \/ Setval(w)
        \/ Commit(w)
        \/ DoctorSave(w)
        \/ DoctorDeleteRow(w)
        \/ Invalidate(w)
        \/ Release(w)
        \/ CGet(w)
        \/ DbRead(w)
        \/ Preload(w)
        \/ CSet(w)
    \/ \E k \in DOMAIN redisLocks : Expire(k)

SpecSeq == InitEmpty /\ [][NextSeq]_vars

\* patient DP-000001 with one emergency contact and one examination,
\* created by earlier calls
InitPatient ==
    /\ redisLocks = EmptyMap
    /\ cacheStore = EmptyMap
    /\ tblDoctor = {}
    /\ tblPatient = {PatientRow([NoArg EXCEPT !.id = FormatID("DP", 1),
                                              !.first_name = "Ann",
                                              !.last_name = "Lee",
                                              !.date_of_birth = "2001-02-03"])}
    /\ tblDep = {ContactRow([NoArg EXCEPT !.dep_id = 1,
                                          !.patient_id = FormatID("DP", 1),
                                          !.phone = "0700"]),
                 [t |-> "examination", id |-> 1,
                  patient_id |-> FormatID("DP", 1)]}
    /\ seqs = [n \in SeqNames |->
                 IF n = "doctor_id_seq" THEN FreshSeq ELSE UsedSeq(1)]
    /\ calls = 0
    /\ faults = 0
    /\ proc = [w \in Workers |-> IdleProc]

\* the patient aggregate under concurrent workers: Delete,
\* DeletePatientAndRelated, EmergencyContact.Create and the reads by id
NextPatient ==
    \/ \E w \in Workers :
        \/ PatientDelete(w)
        \/ PatientDeletePatientAndRelated(w)
        \/ PatientGetByID(w)
        \/ ContactCreate(w)
        \/ ContactGetByID(w)
        \/ TryLock(w)
        \/ AcquireOnce(w)
        \/ PatientDeleteRow(w)
        \/ DPAREnumerate(w)
        \/ DPARInvalidateRow(w)
        \/ DPARDeleteDependents(w)
        \/ DPARDeletePatient(w)
        \/ ContactUpsert(w)
        \/ Invalidate(w)
        \/ Commit(w)
        \/ Release(w)
        \/ CGet(w)
        \/ DbRead(w)
        \/ Preload(w)
        \/ CSet(w)
    \/ \E k \in DOMAIN redisLocks : Expire(k)

SpecPatient == InitPatient /\ [][NextPatient]_vars

\* the Creates of the doctor and the patient repository run by concurrent
\* workers from the empty store, with failing inserts; every call ends
\* within the TTL of its lock
NextCreate ==
    \E w \in Workers :
        \/ DoctorCreate(w)
        \/ PatientCreate(w)
        \/ TryLock(w)
        \/ DoctorCheck(w)
        \/ PatientCheck(w)
        \/ Nextval(w)
        \/ DoctorInsert(w)
        \/ PatientInsert(w)
        \/ Setval(w)
        \/ Invalidate(w)
        \/ Commit(w)
        \/ Release(w)

SpecCreate == InitEmpty /\ [][NextCreate]_vars

\* the lock keys of the doctor repository's Update
DoctorLockKeys == {"doctor_lock:" \o id : id \in DoctorIDs}

\* Update of the doctor repository run by concurrent workers that may stop
\* at any step; Redis is the one component that is sure to act: an entry
\* with a TTL is removed when the TTL has run out
NextLive ==
    \/ \E w \in Workers :
        \/ DoctorUpdate(w)
        \/ TryLock(w)
        \/ DoctorSave(w)
        \/ Invalidate(w)
        \/ Release(w)
    \/ \E k \in DoctorLockKeys : Expire(k)

\* the keys and values the callers of the cache hand to it: an entity key,
\* a reset-code key; the empty string, an encoded row, a reset code
CacheKeys == {getDoctorCacheKey(FormatID("DR", 1)), "reset_code:ann@lee"}

CacheVals == {EmptyVal,
              MarshalDoctor(DoctorRow([NoArg EXCEPT !.id = FormatID("DR", 1),
                                                    !.first_name = "Ann",
                                                    !.last_name = "Lee"])),
              [t |-> "reset_code", code |-> "123456"]}

\* a call of the cache by itself, one round trip: the key is kept in arg.id,
\* the result in got and err
CacheCall(w, op, key, val, err) ==
    /\ calls' = calls + 1
    /\ proc' = [proc EXCEPT ![w] =
           [IdleProc EXCEPT !.op = op, !.arg = [NoArg EXCEPT !.id = key],
                            !.n = calls + 1, !.prev = proc[w].op,
                            !.got = val, !.err = err,
                            !.ret = IF err = "nil" THEN "ok" ELSE "CacheError",
                            !.pc = "done"]]

\* Cache.Set(ctx, key, value, expiration)
CacheApiSet(w) ==
    /\ CanStart(w)
    /\ \E key \in CacheKeys, val \in CacheVals, up \in BOOLEAN :
        LET r == CacheSet(cacheStore, key, val, up)
        IN  /\ Outcome(up)
            /\ cacheStore' = r.store
            /\ CacheCall(w, "Cache.Set", key, val, r.err)
    /\ UNCHANGED <<redisLocks, tblDoctor, tblPatient, tblDep, seqs>>

\* Cache.Get(ctx, key)
CacheApiGet(w) ==
    /\ CanStart(w)
    /\ \E key \in CacheKeys, up \in BOOLEAN :
        LET r == CacheGet(cacheStore, key, up)
        IN  /\ Outcome(up)
            /\ CacheCall(w, "Cache.Get", key, r.val, r.err)
    /\ UNCHANGED <<redisLocks, cacheStore, tblDoctor, tblPatient, tblDep,
                   seqs>>

\* Cache.Delete(ctx, key)
CacheApiDelete(w) ==
    /\ CanStart(w)
    /\ \E key \in CacheKeys, up \in BOOLEAN :
        LET r == CacheDelete(cacheStore, key, up)
        IN  /\ Outcome(up)
            /\ cacheStore' = r.store
            /\ CacheCall(w, "Cache.Delete", key, NoRow, r.err)
    /\ UNCHANGED <<redisLocks, tblDoctor, tblPatient, tblDep, seqs>>

\* the cache called by concurrent workers, from the empty store
NextCache ==
    \E w \in Workers :
        \/ CacheApiSet(w)
        \/ CacheApiGet(w)
        \/ CacheApiDelete(w)

SpecCache == InitEmpty /\ [][NextCache]_vars

\* the reads of the doctor repository run by concurrent workers against the
\* persisted doctor, with the 5-second deadline of each call
NextRead ==
    \E w \in Workers :
        \/ DoctorGetByID(w)
        \/ DoctorGetAll(w)
        \/ CGet(w)
        \/ DbRead(w)
        \/ CSet(w)
        \/ Deadline(w)

SpecRead == Init /\ [][NextRead]_vars

SpecLive ==
    /\ Init
    /\ [][NextLive]_vars
    /\ \A k \in DoctorLockKeys : WF_vars(Expire(k))

\* EmergencyContact.Create of several contacts of one patient run by
\* concurrent workers, with lock expiry
NextContact ==
    \/ \E w \in Workers :
        \/ ContactCreateAny(w)
        \/ TryLock(w)
        \/ ContactUpsert(w)
        \/ Invalidate(w)
        \/ Release(w)
    \/ \E k \in DOMAIN redisLocks : Expire(k)

SpecContact == InitPatient /\ [][NextContact]_vars

\* Update, Delete, GetByID and GetAll of the doctor repository run by
\* concurrent workers against the persisted doctor; no lock expires
NextRace ==
    \E w \in Workers :
        \/ DoctorUpdate(w)
        \/ DoctorDelete(w)
        \/ DoctorGetByID(w)
        \/ DoctorGetAll(w)
        \/ TryLock(w)
        \/ DoctorSave(w)
        \/ DoctorDeleteRow(w)
        \/ Invalidate(w)
        \/ Release(w)
        \/ CGet(w)
        \/ DbRead(w)
        \/ CSet(w)

SpecRace == Init /\ [][NextRace]_vars

\* doctor DR-000001, patient DP-000001 and an appointment of the patient
\* with the doctor, created by earlier calls
InitAppointment ==
    /\ redisLocks = EmptyMap
    /\ cacheStore = EmptyMap
    /\ tblDoctor = {DoctorRow([id |-> FormatID("DR", 1), first_name |-> "Ann",
                               last_name |-> "Lee"])}
    /\ tblPatient = {PatientRow([NoArg EXCEPT !.id = FormatID("DP", 1),
                                              !.first_name = "Ann",
                                              !.last_name = "Lee",
                                              !.date_of_birth = "2001-02-03"])}
    /\ tblDep = {[t |-> "appointment", id |-> 1,
                  patient_id |-> FormatID("DP", 1),
                  doctor_id |-> FormatID("DR", 1)]}
    /\ seqs = [n \in SeqNames |-> UsedSeq(1)]
    /\ calls = 0
    /\ faults = 0
    /\ proc = [w \in Workers |-> IdleProc]

\* Doctor.Update and Appointment.GetByID one after the other: a call starts
\* only when no other call is running
NextAppointment ==
    \E w \in Workers :
        \/ Quiescent /\ DoctorUpdate(w)
        \/ Quiescent /\ AppointmentGetByID(w)
        \/ TryLock(w)
        \/ DoctorSave(w)
        \/ Invalidate(w)
        \/ Release(w)
        \/ CGet(w)
        \/ DbRead(w)
        \/ CSet(w)

SpecAppointment == InitAppointment /\ [][NextAppointment]_vars

\* GetByID, Update and Delete of the emergency contact repository one after
\* the other on the stored contact: a call starts only when no other call is
\* running
NextContactUpdate ==
    \E w \in Workers :
        \/ Quiescent /\ ContactGetByID(w)
        \/ Quiescent /\ ContactUpdate(w)
        \/ Quiescent /\ ContactDelete(w)
        \/ TryLock(w)
        \/ ContactDeleteRow(w)
        \/ ContactFetch(w)
        \/ ContactFetchStore(w)
        \/ ContactFetchSet(w)
        \/ ContactSave(w)
        \/ Invalidate(w)
        \/ Release(w)
        \/ CGet(w)
        \/ DbRead(w)
        \/ CSet(w)

SpecContactUpdate == InitPatient /\ [][NextContactUpdate]_vars

\* user 1 has been created by an earlier CreateUser
InitUser ==
    /\ redisLocks = EmptyMap
    /\ cacheStore = EmptyMap
    /\ tblDoctor = {}
    /\ tblPatient = {}
    /\ tblDep = {[t |-> "user", id |-> 1, username |-> "ann",
                  email |-> "ann@lee", password |-> "h0"]}
    /\ seqs = [n \in SeqNames |-> FreshSeq]
    /\ calls = 0
    /\ faults = 0
    /\ proc = [w \in Workers |-> IdleProc]

\* GetUserByID, GetUserByEmail, UpdateUserEmail and DeleteUser one after the
\* other on the stored user: a call starts only when no other call is running
NextUser ==
    \E w \in Workers :
        \/ Quiescent /\ UserGetByID(w)
        \/ Quiescent /\ UserGetByEmail(w)
        \/ Quiescent /\ UserUpdateEmail(w)
        \/ Quiescent /\ UserDelete(w)
        \/ AcquireOnce(w)
        \/ UserCacheGet(w)
        \/ UserDbRead(w)
        \/ UserCacheSet(w)
        \/ UserSetEmail(w)
        \/ UserCacheDelete(w)
        \/ UserDeleteRow(w)
        \/ Release(w)

SpecUser == InitUser /\ [][NextUser]_vars

\* the HTTP server: every request passes the rate-limiter middleware before
\* its handler
NextHTTP ==
    \E w \in Workers :
        \/ Request(w)
        \/ Admit(w)
        \/ Unlock(w)
        \/ TryLock(w)
        \/ DoctorSave(w)
        \/ Invalidate(w)
        \/ Release(w)
        \/ CGet(w)
        \/ DbRead(w)
        \/ CSet(w)

SpecHTTP == Init /\ [][NextHTTP]_vars

\* user 1 has asked for a password reset: code c1 is stored for ann@lee
InitPassword ==
    /\ redisLocks = EmptyMap
    /\ cacheStore = [k \in {ResetCodeKey("ann@lee")} |-> StoredCode("c1")]
    /\ tblDoctor = {}
    /\ tblPatient = {}
    /\ tblDep = {[t |-> "user", id |-> 1, username |-> "ann",
                  email |-> "ann@lee", password |-> "h0"]}
    /\ seqs = [n \in SeqNames |-> FreshSeq]
    /\ calls = 0
    /\ faults = 0
    /\ proc = [w \in Workers |-> IdleProc]

\* ChangePassword requests, any number of them running at a time
NextPassword ==
    \E w \in Workers :
        \/ ChangePassword(w)
        \/ GetResetCode(w)
        \/ UserCacheGet(w)
        \/ UserDbRead(w)
        \/ UserCacheSet(w)
        \/ AcquireOnce(w)
        \/ UserSetPassword(w)
        \/ UserCacheDelete(w)
        \/ Release(w)
        \/ DeleteResetCode(w)

SpecPassword == InitPassword /\ [][NextPassword]_vars

----------------------------------------------------------------------------
(* Properties of the lock manager and of the doctor repository (Spec) *)

MutatingOps == DoctorOps \cup PatientOps \cup ContactOps

\* the worker is between its lock acquisition and its deferred release
InCritical(w) ==
    /\ proc[w].op \in MutatingOps
    /\ proc[w].locked
    /\ proc[w].pc \notin {"idle", "lock", "release", "done"}

\* C1: two calls that lock the same key never overlap their
\* persist-then-invalidate sections
C1_Serialized ==
    \A w, v \in Workers :
        (w # v /\ InCritical(w) /\ InCritical(v))
            => proc[w].lockKey # proc[v].lockKey

Holds(locks, key, value) == key \in DOMAIN locks /\ locks[key].value = value

\* C2: a ReleaseLock step removes the entry only when the stored value is
\* the presented one; otherwise (value differs or key absent) it reports
\* "not the lock owner" and leaves the lock store as it was
C2_ReleaseOwnerOnly ==
    [][\A w \in Workers :
        (proc[w].pc = "release" /\ proc'[w].pc = "done") =>
            LET k == proc[w].lockKey
                mine == Holds(redisLocks, k, proc[w].lockValue)
            IN  /\ redisLocks' # redisLocks =>
                     /\ mine
                     /\ k \notin DOMAIN redisLocks'
                     /\ \A x \in DOMAIN redisLocks \ {k} :
                            /\ x \in DOMAIN redisLocks'
                            /\ redisLocks'[x] = redisLocks[x]
                /\ (mine /\ faults' = faults) =>
                     /\ k \notin DOMAIN redisLocks'
                     /\ proc'[w].relErr = "nil"
                /\ (~mine /\ faults' = faults) =>
                     /\ proc'[w].relErr = "notOwner"
                     /\ redisLocks' = redisLocks]_vars

\* C2 witness: a release by a caller whose lock expired and was re-acquired
\* by another caller was refused, the new holder's entry is still stored
C2_Witness ==
    \E w \in Workers :
        /\ proc[w].pc = "done"
        /\ proc[w].relErr = "notOwner"
        /\ proc[w].lockKey \in DOMAIN redisLocks
        /\ redisLocks[proc[w].lockKey].value # proc[w].lockValue

\* C3: a NewLock step on a key that is held changes no entry and returns
\* ok = false, with no error unless Redis failed; on a free key it stores
\* exactly the caller's value and ttl
C3_SetIfAbsent ==
    [][\A w \in Workers :
        (proc[w].pc = "lock" /\ proc'[w].i = proc[w].i + 1) =>
            LET k == proc[w].lockKey
            IN  /\ k \in DOMAIN redisLocks =>
                     /\ redisLocks' = redisLocks
                     /\ ~proc'[w].locked
                     /\ faults' = faults => proc'[w].err = "nil"
                /\ (k \notin DOMAIN redisLocks /\ faults' = faults) =>
                     /\ proc'[w].locked
                     /\ DOMAIN redisLocks' = DOMAIN redisLocks \cup {k}
                     /\ redisLocks'[k] = [value |-> proc[w].lockValue,
                                          ttl |-> proc[w].ttl]]_vars

\* C3 witness: an acquire on a key another owner holds came back
\* ok = false, err = nil, and the holder's entry is unchanged
C3_Witness ==
    \E w \in Workers :
        /\ proc[w].pc = "lock"
        /\ proc[w].i >= 1
        /\ ~proc[w].locked
        /\ proc[w].err = "nil"
        /\ proc[w].lockKey \in DOMAIN redisLocks
        /\ redisLocks[proc[w].lockKey].value # proc[w].lockValue

----------------------------------------------------------------------------
(* Properties of lock acquisition in the repositories (SpecPatient) *)

AggregateDelete == "Patient.DeletePatientAndRelated"

\* the lock loop of the call is over and the call does not hold the lock
LockNotTaken(w) ==
    /\ proc[w].op \in MutatingOps
    /\ ~proc[w].locked
    /\ proc[w].pc \notin {"idle", "lock", "acquire"}

\* C4: a mutating call whose lock acquisition failed has returned the
\* lock-acquisition error and has done no store read, no store write, no
\* sequence allocation, no cache invalidation and no release
C4_NoEffectWithoutLock ==
    \A w \in Workers :
        LockNotTaken(w) => /\ proc[w].pc = "done"
                           /\ proc[w].ret = "LockFailed"
                           /\ proc[w].effects = {}

\* C4 witness: DeletePatientAndRelated gave up on a lock that a running
\* Delete of the same patient holds, and the aggregate is untouched
C4_Witness ==
    \E w, v \in Workers :
        /\ proc[w].op = AggregateDelete
        /\ proc[w].ret = "LockFailed"
        /\ proc[v].op = "Patient.Delete"
        /\ InCritical(v)
        /\ Holds(redisLocks, proc[v].lockKey, proc[v].lockValue)
        /\ tblPatient # {}

----------------------------------------------------------------------------
(* Properties of Create (SpecSeq) *)

\* the natural key of a row or of the argument of Create
NaturalKey(op, r) ==
    IF op = "Patient.Create"
    THEN <<r.first_name, r.middle_name, r.last_name, r.date_of_birth>>
    ELSE <<r.first_name, r.last_name>>

TableOf(op) == IF op = "Patient.Create" THEN tblPatient ELSE tblDoctor

\* C6: a Create whose natural key is the one of a row already persisted
\* does not succeed: it never commits a second row with that natural key
C6_SecondCreateRejected ==
    [][\A w \in Workers :
        ( /\ proc[w].op \in {"Doctor.Create", "Patient.Create"}
          /\ proc[w].pc = "commit"
          /\ proc'[w].ret = "ok" )
        => ~\E r \in TableOf(proc[w].op) :
               NaturalKey(proc[w].op, r) = NaturalKey(proc[w].op, proc[w].arg)
      ]_vars

\* what GetByID hands back for the entity a Create has persisted
Created(p) ==
    IF p.op = "Patient.Create" THEN MarshalPatient(PatientRow(p.arg))
    ELSE MarshalDoctor(DoctorRow(p.arg))

\* call v reads by id the entity that call w has created, as the next call
\* or after one other read of it
ReadsCreated(w, v) ==
    /\ proc[w].op \in {"Doctor.Create", "Patient.Create"}
    /\ proc[w].pc = "done"
    /\ proc[w].ret = "ok"
    /\ proc[v].op = (IF proc[w].op = "Patient.Create" THEN "Patient.GetByID"
                     ELSE "Doctor.GetByID")
    /\ proc[v].arg.id = proc[w].arg.id
    /\ \/ proc[v].n = proc[w].n + 1
       \/ proc[v].n = proc[w].n + 2 /\ proc[v].prev = proc[v].op

\* C11: a GetByID of the created id that follows a successful Create, with
\* nothing but reads in between, returns the entity as created, from the
\* store or from the cache, unless the store query itself fails
C11_CreateThenGet ==
    \A w, v \in Workers :
        ( /\ ReadsCreated(w, v)
          /\ proc[v].pc = "done"
          /\ proc[v].ret # "StoreError" )
        => /\ proc[v].ret = "ok"
           /\ proc[v].got = Created(proc[w])

\* C11 witness: the second read after a Patient.Create with an empty middle
\* name was served from the cache and returned the patient as created
C11_Witness ==
    \E w, v \in Workers :
        /\ ReadsCreated(w, v)
        /\ proc[w].op = "Patient.Create"
        /\ proc[v].n = proc[w].n + 2
        /\ proc[v].pc = "done"
        /\ proc[v].ret = "ok"
        /\ "dbRead" \notin proc[v].effects
        /\ proc[v].got = Created(proc[w])

GetByIDOps == {"Doctor.GetByID", "Patient.GetByID",
               "EmergencyContact.GetByID"}

\* C12: a GetByID whose key is not in the cache goes on to the store; when
\* the row exists it takes the row and, Redis working, stores it under the
\* same key and returns it; a GetByID that finds the key with a decodable
\* value returns that value without a store query
C12_MissThenRepopulate ==
    [][\A w \in Workers :
        LET p == proc[w]
            q == proc'[w]
            key == ReadKey(p)
        IN  p.op \in GetByIDOps =>
            /\ (p.pc = "cget" /\ q.pc # "cget" /\ key \notin DOMAIN cacheStore)
                   => q.pc = "dbread"
            /\ ( /\ p.pc = "dbread" /\ q.pc # "dbread"
                 /\ faults' = faults /\ ReadDb(p) # NoRow )
                   => /\ q.pc = (IF Preloads(p.op) = <<>> THEN "cset"
                                   ELSE "preload")
                      /\ q.got = ReadDb(p)
            /\ (p.pc = "cset" /\ q.pc # "cset" /\ faults' = faults)
                   => /\ q.ret = "ok"
                      /\ q.got = p.got
                      /\ key \in DOMAIN cacheStore'
                      /\ cacheStore'[key] = p.got
            /\ ( /\ p.pc = "cget" /\ q.pc # "cget" /\ faults' = faults
                 /\ key \in DOMAIN cacheStore
                 /\ cacheStore[key].t = ReadType(p) )
                   => /\ q.pc = "done" /\ q.ret = "ok"
                      /\ q.got = cacheStore[key]
      ]_vars

\* C12 witness: Doctor.Create deleted doctor_cache:<id>, the next GetByID
\* read the store and stored the row, and the GetByID after it was a hit
C12_Witness ==
    \E w, v \in Workers :
        /\ proc[w].op = "Doctor.Create"
        /\ proc[w].ret = "ok"
        /\ "cacheDel" \in proc[w].effects
        /\ proc[v].op = "Doctor.GetByID"
        /\ proc[v].prev = "Doctor.GetByID"
        /\ proc[v].n = proc[w].n + 2
        /\ proc[v].pc = "done"
        /\ proc[v].effects = {"cacheGet"}
        /\ proc[v].got = ReadDb(proc[v])
        /\ proc[v].got # NoRow

ReadOps == GetByIDOps \cup {"Doctor.GetAll"}

\* C13: in GetByID and GetAll a failed cache Get, and a value that does not
\* decode, lead to the store query; the call returns what the store query
\* returned, also when the cache Set after it fails; the only error a read
\* returns is the one of a failed store query
C13_CacheFailureIsMiss ==
    [][\A w \in Workers :
        LET p == proc[w]
            q == proc'[w]
            key == ReadKey(p)
        IN  (p.op \in ReadOps /\ q.op = p.op /\ q.n = p.n) =>
            /\ ( /\ p.pc = "cget" /\ q.pc # "cget"
                 /\ \/ faults' # faults
                    \/ key \notin DOMAIN cacheStore
                    \/ cacheStore[key].t # ReadType(p) )
                   => q.pc = "dbread" /\ q.ret = "none"
            /\ (p.pc = "dbread" /\ q.pc # "dbread" /\ faults' = faults)
                   => /\ q.got = ReadDb(p)
                      /\ q.ret = (IF ReadDb(p) = NoRow THEN "ok" ELSE "none")
            /\ (p.pc = "cset" /\ q.pc # "cset")
                   => q.pc = "done" /\ q.ret = "ok" /\ q.got = p.got
            /\ (p.pc = "preload" /\ q.pc # "preload" /\ faults' = faults)
                   => q.got = p.got /\ q.ret = "none"
            /\ (q.ret # p.ret /\ q.ret # "ok")
                   => p.pc \in {"dbread", "preload"} /\ faults' # faults
      ]_vars

\* C13 witness: Patient.GetByID read the row from the store, its cache Set
\* failed, and the call returned the row and no error
C13_Witness ==
    \E w \in Workers :
        /\ proc[w].op = "Patient.GetByID"
        /\ proc[w].pc = "done"
        /\ proc[w].ret = "ok"
        /\ proc[w].effects = {"cacheGet", "dbRead", "cacheSet"}
        /\ proc[w].got = ReadDb(proc[w])
        /\ proc[w].got # NoRow
        /\ ReadKey(proc[w]) \notin DOMAIN cacheStore

\* C14: a mutating call never returns the error of a cache Delete or
\* DeleteAll: a step in which such a call fails leaves the call on its way
\* to success
C14_CacheErrorAbsorbed ==
    \A w \in Workers :
        proc[w].op \in MutatingOps => proc[w].ret # "CacheError"

\* C16: when two Updates of one doctor with different LastNames have both
\* returned nil, the row carries the LastName of the one that acquired the
\* lock second
C16_SecondAcquirerWins ==
    \A w, v \in Workers :
        ( /\ w # v
          /\ proc[w].op = "Doctor.Update" /\ proc[v].op = "Doctor.Update"
          /\ proc[w].pc = "done" /\ proc[v].pc = "done"
          /\ proc[w].ret = "ok" /\ proc[v].ret = "ok"
          /\ proc[w].arg.id = proc[v].arg.id
          /\ proc[w].arg.last_name # proc[v].arg.last_name
          /\ proc[v].n \in proc[w].after )
        => \A d \in tblDoctor :
               d.id = proc[w].arg.id => d.last_name = proc[w].arg.last_name

\* the lock entries that carry the token of worker w's call
TokensOf(locks, w) ==
    {k \in DOMAIN locks : locks[k].value = proc[w].lockValue}

\* C17: a call asks for a lock only while it holds none, always for the one
\* key it was started with, and at no time does the lock store hold more
\* than one entry with a call's token
C17_OneLockPerCall ==
    [][\A w \in Workers :
        /\ (proc'[w].i = proc[w].i + 1) =>
              /\ ~proc[w].locked
              /\ TokensOf(redisLocks, w) = {}
              /\ proc'[w].lockKey = proc[w].lockKey
              /\ DOMAIN redisLocks' \subseteq
                    DOMAIN redisLocks \cup {proc[w].lockKey}
        /\ (proc'[w].n = proc[w].n) =>
              /\ proc'[w].lockKey = proc[w].lockKey
              /\ TokensOf(redisLocks', w) \subseteq {proc[w].lockKey}]_vars

\* C17 witness: DeletePatientAndRelated is deleting the dependents of its
\* patient under its one lock while another call holds its own
C17_Witness ==
    \E w, v \in Workers :
        /\ proc[w].op = AggregateDelete
        /\ proc[w].pc = "txdel"
        /\ TokensOf(redisLocks, w) = {proc[w].lockKey}
        /\ proc[v].op \in MutatingOps
        /\ InCritical(v)
        /\ TokensOf(redisLocks, v) = {proc[v].lockKey}
        /\ proc[v].lockKey # proc[w].lockKey

\* C18: a read never asks for a lock, and the patient GetByID returns with
\* its patient the dependents as they were in the store at one moment of
\* the read: the state before or the state after a concurrent write
C18_ReadsLockFreeUntorn ==
    [][\A w \in Workers :
        LET p == proc[w]
            q == proc'[w]
        IN  (p.op \in ReadOps /\ q.op = p.op /\ q.n = p.n) =>
            /\ ~q.locked /\ q.i = 0 /\ q.lockKey = ""
            /\ (p.pc = "preload" /\ q.pc = "cset") => q.loaded \in q.seen
      ]_vars

\* the entity a mutating call writes: the row's primary key, or for a
\* Create the natural key its table keeps unique
EntityOf(p) ==
    CASE p.op = "EmergencyContact.Create" ->
           <<"emergency_contact", p.arg.patient_id, p.arg.phone>>
      [] p.op \in PatientOps \ {"Patient.Create"} -> <<"patient", p.arg.id>>
      [] p.op \in DoctorOps \ {"Doctor.Create"} -> <<"doctor", p.arg.id>>
      [] OTHER -> <<p.op, NaturalKey(p.op, p.arg)>>

\* C19: a lock attempt that Redis answers and that does not get the lock
\* finds it held by a running call that writes the same entity
C19_NoContentionAcrossEntities ==
    [][\A w, v \in Workers :
        ( /\ w # v
          /\ proc[w].pc = "lock"
          /\ proc'[w].i = proc[w].i + 1
          /\ faults' = faults
          /\ ~proc'[w].locked
          /\ InCritical(v)
          /\ Holds(redisLocks, proc[w].lockKey, proc[v].lockValue) )
        => EntityOf(proc[v]) = EntityOf(proc[w])]_vars

\* C15: with Creates only, the ID a nextval step hands out is neither the ID of a row that is
\* persisted in the namespace's table nor the ID another running Create
\* holds
C15_NoIDReuse ==
    [][\A w \in Workers :
        (proc[w].pc = "nextval" /\ proc'[w].pc = "insert") =>
            /\ ~\E r \in TableOf(proc[w].op) : r.id = proc'[w].nextID
            /\ ~\E v \in Workers \ {w} :
                    /\ proc[v].op = proc[w].op
                    /\ proc[v].pc \in {"insert", "setval", "inv", "commit"}
                    /\ proc[v].nextID = proc'[w].nextID]_vars

\* C20: a mutating call that took its lock returns only through one
\* ReleaseLock of its own key with its own token, whatever it returns; a
\* call that did not take it returns without touching the lock store
C20_ReleaseOnEveryExit ==
    [][\A w \in Workers :
        LET p == proc[w]
            q == proc'[w]
        IN  (p.op \in MutatingOps /\ q.op = p.op /\ q.n = p.n) =>
            /\ (p.pc # "done" /\ q.pc = "done" /\ p.locked) =>
                  /\ p.pc = "release"
                  /\ "release" \notin p.effects
                  /\ "release" \in q.effects
                  /\ q.ret = p.ret
                  /\ \E up \in BOOLEAN :
                        redisLocks' = ReleaseLock(redisLocks, p.lockKey,
                                                  p.lockValue, up).locks
            /\ (p.pc # "done" /\ q.pc = "done" /\ ~p.locked) =>
                  /\ "release" \notin q.effects
                  /\ q.ret = "LockFailed"
            /\ (p.pc = "release" /\ q # p) => q.pc = "done"
            /\ (p.pc = "done") => q = p
      ]_vars

\* C20 witness: an Update that failed on its cache invalidation and a
\* Create that was rejected as a duplicate have both run their release
C20_Witness ==
    \E w, v \in Workers :
        /\ proc[w].op = "Doctor.Update" /\ proc[v].op = "Doctor.Create"
        /\ proc[w].pc = "done" /\ proc[v].pc = "done"
        /\ proc[w].ret = "CacheError" /\ proc[v].ret = "Duplicate"
        /\ "release" \in proc[w].effects /\ "release" \in proc[v].effects
        /\ proc[w].relErr = "nil" /\ proc[v].relErr = "nil"
        /\ redisLocks = EmptyMap

\* the mutating calls on one entity: all but the aggregate deletion
PerEntityOps == MutatingOps \ {AggregateDelete}

\* C21: the step in which a per-entity mutating call fails in validation or
\* persistence changes no table and no cache entry, and the call has deleted
\* no cache key
C21_FailureLeavesNoTrace ==
    [][\A w \in Workers :
        LET p == proc[w]
            q == proc'[w]
        IN  ( /\ p.op \in PerEntityOps /\ q.op = p.op /\ q.n = p.n
              /\ p.ret = "none"
              /\ q.ret \in {"Duplicate", "StoreError"} )
            => /\ tblDoctor' = tblDoctor
               /\ tblPatient' = tblPatient
               /\ tblDep' = tblDep
               /\ cacheStore' = cacheStore
               /\ "cacheDel" \notin q.effects
      ]_vars

\* C22: a lock key that is taken is free again later, by its holder's
\* release or by the expiry of the entry, and a free key is given to the
\* next caller that asks for it
C22_LockEventuallyFree ==
    /\ \A k \in DoctorLockKeys :
          (k \in DOMAIN redisLocks) ~> (k \notin DOMAIN redisLocks)
    /\ [](\A k \in DoctorLockKeys :
            k \notin DOMAIN redisLocks =>
                NewLock(redisLocks, k, 0, ShortTTL, TRUE).ok)

\* C22 witness: an Update's release failed in Redis, its entry ran out, and
\* a later Update holds the key
C22_Witness ==
    \E w, v \in Workers :
        /\ proc[w].op = "Doctor.Update"
        /\ proc[w].pc = "done"
        /\ proc[w].relErr = "redis"
        /\ proc[v].op = "Doctor.Update"
        /\ proc[v].lockKey = proc[w].lockKey
        /\ proc[v].n > proc[w].n
        /\ Holds(redisLocks, proc[v].lockKey, proc[v].lockValue)

\* C23: a read whose deadline has passed while its store query is pending
\* does nothing more than return the timeout error
C23_StoreReadBounded ==
    [][\A w \in Workers :
        LET p == proc[w]
            q == proc'[w]
        IN  ( /\ p.op \in ReadOps /\ q.op = p.op /\ q.n = p.n
              /\ p.pc \in {"dbread", "preload"}
              /\ p.ctxDone
              /\ q # p )
            => q.pc = "done" /\ q.ret = "Timeout"
      ]_vars

\* what Cache.Get answers for a key that is absent
GetOfAbsent(key) == CacheGet(EmptyMap, key, TRUE)

\* C24: a Cache.Get of a key that is present, with whatever value, answers
\* something else than a Cache.Get of an absent key
C24_EmptyIsNotAbsent ==
    [][\A w \in Workers :
        LET q == proc'[w]
        IN  ( /\ q # proc[w]
              /\ q.op = "Cache.Get"
              /\ faults' = faults
              /\ q.arg.id \in DOMAIN cacheStore )
            => <<q.got, q.err>> #
                   <<GetOfAbsent(q.arg.id).val, GetOfAbsent(q.arg.id).err>>
      ]_vars

\* C25: a GetByID whose store query finds no row returns (nil, nil) and
\* leaves the cache as it is, a failed store query returns an error; and a
\* GetByID that follows the Create of an identity reads the created row from
\* the store, also when a GetByID before the Create had found nothing
C25_NotFoundIsNotCached ==
    [][\A w \in Workers :
        LET p == proc[w]
            q == proc'[w]
        IN  /\ ( /\ p.op \in GetByIDOps /\ q.op = p.op /\ q.n = p.n
                 /\ p.pc = "dbread" /\ q.pc # "dbread" )
               => IF faults' # faults
                  THEN q.pc = "done" /\ q.ret = "StoreError"
                  ELSE ReadDb(p) = NoRow =>
                          /\ q.pc = "done" /\ q.ret = "ok" /\ q.got = NoRow
                          /\ "cacheSet" \notin q.effects
                          /\ cacheStore' = cacheStore
            /\ \A v \in Workers :
                 ( /\ ReadsCreated(v, w)
                   /\ q.prev = q.op
                   /\ q.n = proc'[v].n + 1
                   /\ p.pc # "done" /\ q.pc = "done"
                   /\ q.ret # "StoreError" )
                 => /\ q.ret = "ok"
                    /\ q.got = Created(proc[v])
                    /\ "dbRead" \in q.effects
      ]_vars

\* C25 witness: GetByID found nothing in the empty store, Doctor.Create
\* then created the doctor, and the next GetByID of that id returned it
C25_Witness ==
    \E w, v \in Workers :
        /\ proc[v].op = "Doctor.Create" /\ proc[v].ret = "ok"
        /\ proc[v].n = 2
        /\ proc[w].op = "Doctor.GetByID" /\ proc[w].prev = "Doctor.GetByID"
        /\ proc[w].n = 3
        /\ proc[w].arg.id = proc[v].arg.id
        /\ proc[w].pc = "done" /\ proc[w].ret = "ok"
        /\ proc[w].got = Created(proc[v])
        /\ "dbRead" \in proc[w].effects

\* C26: when a mutating call deletes its entity key or a collection key,
\* its store write has been made and nothing of it is waiting for a COMMIT
C26_InvalidateAfterCommit ==
    [][\A w \in Workers :
        LET p == proc[w]
            q == proc'[w]
        IN  ( /\ p.op \in MutatingOps /\ q.op = p.op /\ q.n = p.n
              /\ p.pc = "inv"
              /\ q # p )
            => /\ "dbWrite" \in p.effects
               /\ p.tx = {}
               /\ p.txDel = {}
      ]_vars

\* the cache keys of a cache.Delete or cache.DeleteAll call
Hit(store, k) ==
    IF k.all THEN {x \in DOMAIN store : GlobMatch(k.key, x)}
    ELSE {k.key} \cap DOMAIN store

\* the entity's specific key, the entity type's collection key and, for an
\* entity owned by a patient, the patient's specific key and patients_cache
KeyOrder(p) ==
    CASE p.op \in DoctorOps ->
           <<getDoctorCacheKey(p.arg.id), "doctors_cache">>
      [] p.op \in PatientOps ->
           <<getPatientCacheKey(p.arg.id), "patients_cache">>
      [] p.op \in ContactOps ->
           <<getEmergencyContactCacheKey(p.arg.patient_id, p.arg.dep_id),
             "emergency_contacts_cache",
             getPatientCacheKey(p.arg.patient_id), "patients_cache">>
      [] OTHER -> <<>>

\* the deletion steps of a per-entity mutation: the j-th one removes the
\* j-th key of KeyOrder and nothing else, and the call succeeds only after
\* the last one
DeletesInOrder(p, q) ==
    /\ (p.pc = "inv" /\ q # p) =>
          /\ p.j \in 1..Len(KeyOrder(p))
          /\ faults' = faults =>
                /\ DOMAIN cacheStore' = DOMAIN cacheStore \ {KeyOrder(p)[p.j]}
                /\ \A x \in DOMAIN cacheStore' : cacheStore'[x] = cacheStore[x]
                /\ q.j = IF p.j < Len(KeyOrder(p)) THEN p.j + 1 ELSE p.j
          /\ (faults' = faults /\ p.j < Len(KeyOrder(p))) => q.pc = "inv"
    /\ (p.ret = "none" /\ q.ret = "ok") =>
          /\ "cacheDel" \in q.effects
          /\ q.j = Len(KeyOrder(p))

\* C27 as stated: a successful per-entity mutation deletes the specific key,
\* the collection key, then for a patient-owned entity the patient's key and
\* patients_cache, and when the call returns all of these keys are absent
C27_KeysAbsentAfterCall ==
    [][\A w \in Workers :
        LET p == proc[w]
            q == proc'[w]
        IN  (p.op \in PerEntityOps /\ q.op = p.op /\ q.n = p.n) =>
            /\ DeletesInOrder(p, q)
            /\ (p.ret = "none" /\ q.ret = "ok") =>
                  \A i \in 1..Len(KeyOrder(p)) :
                      KeyOrder(p)[i] \notin DOMAIN cacheStore'
      ]_vars

\* C27 amended: a successful per-entity mutation deletes the specific key,
\* the collection key, then for a patient-owned entity the patient's key and
\* patients_cache, one key per step in this order and no other key; each key
\* is absent right after its deletion (a read running beside the call may
\* store it again before the call returns)
C27_InvalidationOrder ==
    [][\A w \in Workers :
        LET p == proc[w]
            q == proc'[w]
        IN  (p.op \in PerEntityOps /\ q.op = p.op /\ q.n = p.n) =>
            DeletesInOrder(p, q)
      ]_vars

\* C27 witness: an emergency contact was created and its four keys deleted,
\* and the patient's key has been stored again by a read
C27_Witness ==
    \E w \in Workers :
        /\ proc[w].op = "EmergencyContact.Create"
        /\ proc[w].ret = "ok"
        /\ proc[w].pc = "done"
        /\ proc[w].j = 4
        /\ getPatientCacheKey(proc[w].arg.patient_id) \in DOMAIN cacheStore

\* the dependent rows that were there when the transaction of the call began
AtStart(p) == UNION p.seen

\* C28: in DeletePatientAndRelated a dependent row that was there when the
\* transaction began is deleted only after the call has enumerated it and
\* deleted its specific cache key, the key is absent right after that
\* deletion, and the patient row is deleted only after the delete statements
\* of all five dependent types, with no such row left
C28_EnumerateInvalidateDelete ==
    [][\A w \in Workers :
        LET p == proc[w]
            q == proc'[w]
        IN  (p.op = AggregateDelete /\ q.op = p.op /\ q.n = p.n) =>
            /\ \A r \in (q.txDel \ p.txDel) \cap AtStart(p) :
                  r \in p.purged
            /\ \A r \in q.purged \ p.purged :
                  /\ r \in p.rows
                  /\ r \notin p.txDel
                  /\ DepCacheKey(r) \notin DOMAIN cacheStore'
            /\ (\E r \in q.txDel \ p.txDel : r.t = "patient") =>
                  /\ p.pc = "txdelp"
                  /\ \A r \in AtStart(p) \cap tblDep : r \in p.txDel
            /\ (q.pc = "txdelp" /\ p.pc # "txdelp") =>
                  (p.pc = "txdel" /\ p.j = Len(DepTypes))
      ]_vars

\* C28 witness: DeletePatientAndRelated returned nil after it enumerated
\* the contact and the examination that were there at its start and deleted
\* the cache key of each
C28_Witness ==
    \E w \in Workers :
        /\ proc[w].op = AggregateDelete
        /\ proc[w].ret = "ok"
        /\ Cardinality(proc[w].purged) = 2
        /\ \E r \in proc[w].purged : r.t = "examination"
        /\ AtStart(proc[w]) = proc[w].purged

\* the cache keys that hold another value after the step than before it
Written == {k \in DOMAIN cacheStore' :
               k \notin DOMAIN cacheStore \/ cacheStore'[k] # cacheStore[k]}

C30_ReleaseFailureIgnored ==
    [][\A w \in Workers :
        LET p == proc[w]
            q == proc'[w]
        IN  (p.op \in MutatingOps /\ p.pc = "release" /\ q # p) =>
            /\ q.pc = "done"
            /\ q.ret = p.ret
            /\ p.ret # "none"
            /\ q.relErr \in {"nil", "redis", "notOwner"}
            /\ tblDoctor' = tblDoctor
            /\ tblPatient' = tblPatient
            /\ tblDep' = tblDep
            /\ cacheStore' = cacheStore
      ]_vars

\* C30 witness: an Update whose lock had expired returned nil with its row
\* saved, although its release reported that the lock was not its own
C30_Witness ==
    \E w \in Workers :
        /\ proc[w].op = "Doctor.Update"
        /\ proc[w].pc = "done"
        /\ proc[w].ret = "ok"
        /\ proc[w].relErr = "notOwner"
        /\ DoctorRow(proc[w].arg) \in tblDoctor

----------------------------------------------------------------------------
(* Properties of the patient aggregate (SpecPatient) *)

RowsOf(patientID) ==
    {r \in tblPatient : r.id = patientID}
        \cup {r \in tblDep : r.patient_id = patientID}

\* C7: once DeletePatientAndRelated(P) has returned nil, the store holds no
\* row of P and the cache holds neither patient_cache:P nor a contact key of
\* P nor a collection key
C7_GoneAfterDelete ==
    \A w \in Workers :
        ( /\ proc[w].op = AggregateDelete
          /\ proc[w].pc = "done"
          /\ proc[w].ret = "ok" )
        => /\ RowsOf(proc[w].arg.id) = {}
           /\ getPatientCacheKey(proc[w].arg.id) \notin DOMAIN cacheStore
           /\ \A id \in ContactIDs :
                 getEmergencyContactCacheKey(proc[w].arg.id, id)
                     \notin DOMAIN cacheStore
           /\ \A k \in {"patients_cache", "appointments_cache",
                        "emergency_contacts_cache", "billings_cache",
                        "examinations_cache", "treatment_plans_cache"} :
                 k \notin DOMAIN cacheStore

\* C8: a step of DeletePatientAndRelated(P) changes the committed rows only
\* when it is the COMMIT of a call that returns nil, and then no row of P is
\* left and no other row is touched; every other step of the call, each
\* failing one included, leaves the committed rows as they were
C8_AllOrNothing ==
    [][\A w \in Workers :
        (proc[w].op = AggregateDelete /\ proc'[w] # proc[w]) =>
            IF proc[w].pc = "commit" /\ proc'[w].ret = "ok"
            THEN /\ tblPatient' = {r \in tblPatient : r.id # proc[w].arg.id}
                 /\ tblDep' = {r \in tblDep : r.patient_id # proc[w].arg.id}
                 /\ tblDoctor' = tblDoctor
            ELSE /\ tblPatient' = tblPatient
                 /\ tblDep' = tblDep
                 /\ tblDoctor' = tblDoctor
      ]_vars

\* C8 witness: DeletePatientAndRelated failed after it had deleted
\* dependents in its transaction, and patient and dependents are all there
C8_Witness ==
    \E w \in Workers :
        /\ proc[w].op = AggregateDelete
        /\ proc[w].pc = "done"
        /\ proc[w].ret \in {"StoreError", "CacheError"}
        /\ "dbWrite" \in proc[w].effects
        /\ Cardinality(RowsOf(proc[w].arg.id)) = 3

----------------------------------------------------------------------------
(* Properties of cache invalidation (SpecSeq) *)

\* a cache key holds a value that differs from what the store holds now
StaleDoctorKey(id) ==
    /\ getDoctorCacheKey(id) \in DOMAIN cacheStore
    /\ cacheStore[getDoctorCacheKey(id)] #
          ReadDb([op |-> "Doctor.GetByID", arg |-> [NoArg EXCEPT !.id = id]])

StaleDoctorsKey ==
    /\ "doctors_cache" \in DOMAIN cacheStore
    /\ cacheStore["doctors_cache"] # MarshalDoctors(tblDoctor)

\* C10: a mutating call that stopped on a cache error after its store write
\* leaves no cache key of the entity with a value older than the write
C10_NoStaleAfterStop ==
    \A w \in Workers :
        ( /\ proc[w].op \in {"Doctor.Update", "Doctor.Delete"}
          /\ proc[w].pc \in {"release", "done"}
          /\ proc[w].ret = "CacheError"
          /\ "dbWrite" \in proc[w].effects )
        => /\ ~StaleDoctorKey(proc[w].arg.id)
           /\ ~StaleDoctorsKey

----------------------------------------------------------------------------
(* Properties of reads racing with writes (SpecRace) *)

\* C31: when no Redis or store call has failed and every call has returned,
\* doctor_cache:<id> and doctors_cache are absent or hold what the store
\* holds
C31_NoStaleAfterRace ==
    (Quiescent /\ faults = 0) =>
        /\ \A id \in DoctorIDs : ~StaleDoctorKey(id)
        /\ ~StaleDoctorsKey

----------------------------------------------------------------------------
(* Properties of the error results (Spec) *)

\* C32: when the first call made on the stored doctor Ann Lee is a mutating
\* call that returns an error, the store holds that row and nothing else
C32_ErrorMeansUnchanged ==
    \A w \in Workers :
        ( /\ proc[w].op \in MutatingOps
          /\ proc[w].n = 1
          /\ calls = 1
          /\ proc[w].ret \notin {"none", "ok"} )
        => /\ tblDoctor = {DoctorRow([id |-> FormatID("DR", 1),
                                      first_name |-> "Ann",
                                      last_name |-> "Lee"])}
           /\ tblPatient = {}
           /\ tblDep = {}

----------------------------------------------------------------------------
(* Properties of Patient.Create (SpecSeq) *)

\* C33: the patients persisted with an empty middle name differ in first
\* name, last name or date of birth
C33_EmptyMiddleNameUnique ==
    \A r, s \in tblPatient :
        ( /\ r.middle_name = ""
          /\ NaturalKey("Patient.Create", r) = NaturalKey("Patient.Create", s) )
        => r = s

----------------------------------------------------------------------------
(* Properties of the cached appointments (SpecAppointment) *)

\* C34: once a Doctor.Update has returned nil and no call has started since
\* and no Redis or store call has failed, every cached appointment of that
\* doctor carries the doctor's names as the Update stored them
C34_EmbeddedNamesCurrent ==
    \A w \in Workers :
        ( /\ proc[w].op = "Doctor.Update"
          /\ proc[w].pc = "done"
          /\ proc[w].ret = "ok"
          /\ proc[w].n = calls
          /\ faults = 0 )
        => \A k \in DOMAIN cacheStore :
              ( /\ cacheStore[k].t = "appointment"
                /\ cacheStore[k].doctor_id = proc[w].arg.id )
              => /\ cacheStore[k].doctor.first_name = proc[w].arg.first_name
                 /\ cacheStore[k].doctor.last_name = proc[w].arg.last_name

----------------------------------------------------------------------------
(* Properties of EmergencyContact.Update (SpecContactUpdate) *)

\* the committed row of the contact an Update names
ContactOf(p) ==
    {r \in tblDep : /\ r.t = "emergency_contact"
                    /\ r.patient_id = p.arg.patient_id
                    /\ r.id = p.arg.dep_id}

\* C35: a step of an Update changes the contact table only when the row of
\* its contact is there, and then changes the phone of that row and nothing
\* else; an Update that holds its lock and finds no row and no store or
\* Redis failure ends with 'emergency contact not found'
C35_UpdateOfAbsentRejected ==
    [][\A w \in Workers :
        LET p == proc[w]
            q == proc'[w]
        IN  ( /\ p.op = "EmergencyContact.Update" /\ q.op = p.op /\ q.n = p.n
              /\ q # p ) =>
            /\ tblDep' # tblDep =>
                  /\ ContactOf(p) # {}
                  /\ tblDep' = (tblDep \ ContactOf(p))
                        \cup {[r EXCEPT !.phone = p.arg.phone] :
                                 r \in ContactOf(p)}
            /\ ( /\ ContactOf(p) = {} /\ p.locked /\ p.ret = "none"
                 /\ q.ret # "none" /\ faults' = faults )
                  => q.ret = "NotFound"
      ]_vars

----------------------------------------------------------------------------
(* Properties of the user cache (SpecUser) *)

\* C36: once UpdateUserEmail or DeleteUser has returned nil, no call has
\* started since and no Redis or store call has failed, every cached value
\* of that user is the user as the store holds it; none is left of a deleted
\* user
C36_UserCacheCurrent ==
    \A w \in Workers :
        ( /\ proc[w].op \in {"User.UpdateUserEmail", "User.DeleteUser"}
          /\ proc[w].pc = "done"
          /\ proc[w].ret = "ok"
          /\ proc[w].n = calls
          /\ faults = 0 )
        => \A k \in DOMAIN cacheStore :
              ( /\ cacheStore[k].t = "user"
                /\ cacheStore[k].id = proc[w].arg.id )
              => \E r \in Users : cacheStore[k] = MarshalUser(r)

----------------------------------------------------------------------------
(* Properties of the rate-limiter middleware (SpecHTTP) *)

\* C37: a request waiting at the middleware's mutex is let in while another
\* request is inside its handler (in the lock-acquisition loop or waiting
\* on the store or the cache): the mutex is not held across the handler
C37_HandlersRunConcurrently ==
    \A w \in Workers, v \in Workers :
        (proc[w].pc = "mu" /\ InHandler(v)) => CanAdmit(w)

----------------------------------------------------------------------------
(* Properties of the password reset (SpecPassword) *)

\* the ChangePassword requests that have updated the password
Changers ==
    {w \in Workers : /\ proc[w].op = "Auth.ChangePassword"
                     /\ "dbWrite" \in proc[w].effects}

\* C38: as long as no Redis or store call has failed, at most one
\* ChangePassword request presenting the stored code has changed the
\* password, and once a request has answered 200 no code is stored for its
\* email
C38_ResetCodeSingleUse ==
    faults = 0 =>
        /\ Cardinality(Changers) <= 1
        /\ \A w \in Workers :
              ( /\ proc[w].op = "Auth.ChangePassword"
                /\ proc[w].pc = "done"
                /\ proc[w].ret = "ok" )
              => ResetCodeKey(proc[w].arg.email) \notin DOMAIN cacheStore

====
